---------------------------- MODULE Spec2Model ----------------------------
(***************************************************************************)
(* A model of jcalc: a JDWP client that evaluates arithmetic expressions   *)
(* inside a target JVM.                                                    *)
(*                                                                         *)
(*   - parse.rs: the recursive-descent parser, as operators over sequences *)
(*     of one-character strings (specification SpecParse).                 *)
(*   - main.rs: the receive task, the send task (handle_send and the       *)
(*     SendHandler helpers) and the target they talk to (specification     *)
(*     Spec).                                                              *)
(***************************************************************************)
EXTENDS Integers, Sequences, FiniteSets, TLC

(***************************************************************************)
(* Bounds of the model.                                                    *)
(***************************************************************************)
\* Longest enumerated parser input (every string over Alphabet up to it).
MaxLen == 5

(***************************************************************************)
(* Characters and strings.  A Rust &str is a sequence of one-character     *)
(* strings.                                                                *)
(***************************************************************************)
Digits == {"0", "1", "2", "3", "4", "5", "6", "7", "8", "9"}

\* char::is_whitespace, restricted to the characters the model uses
IsWhitespace(c) == c \in {" ", "\n"}

\* char::is_ascii_digit
IsAsciiDigit(c) == c \in Digits

DigitValue(c) ==
  CASE c = "0" -> 0 [] c = "1" -> 1 [] c = "2" -> 2 [] c = "3" -> 3
    [] c = "4" -> 4 [] c = "5" -> 5 [] c = "6" -> 6 [] c = "7" -> 7
    [] c = "8" -> 8 [] c = "9" -> 9

RECURSIVE trim_start(_)
trim_start(s) ==
  IF s = <<>> \/ ~IsWhitespace(Head(s)) THEN s ELSE trim_start(Tail(s))

RECURSIVE trim_end(_)
trim_end(s) ==
  IF s = <<>> \/ ~IsWhitespace(s[Len(s)]) THEN s
  ELSE trim_end(SubSeq(s, 1, Len(s) - 1))

trim(s) == trim_end(trim_start(s))

(***************************************************************************)
(* parse.rs                                                                *)
(***************************************************************************)
\* Expression::Number(i64) and Expression::Binary(Operator).  The i64 of a
\* Number is hi * 10^LimbDigits + n, with hi kept as a decimal numeral
\* (empty for zero): n alone is the value of every number below
\* 10^LimbDigits.
LimbDigits == 9

Number(n) == [tag |-> "Number", n |-> n, op |-> "-", hi |-> <<>>]

BigNumber(hi, n) == [tag |-> "Number", n |-> n, op |-> "-", hi |-> hi]

Binary(o) == [tag |-> "Binary", n |-> 0, op |-> o, hi |-> <<>>]

\* Result<String, String> of the parse_* functions, with the instruction
\* vector the call leaves in exprs.
POk(rest, exprs) == [ok |-> TRUE, err |-> "", rest |-> rest, exprs |-> exprs]

PErr(e) == [ok |-> FALSE, err |-> e, rest |-> <<>>, exprs |-> <<>>]

\* The length of the leading run of ASCII digits (the for loop of
\* parse_primary).
RECURSIVE DigitRun(_)
DigitRun(s) ==
  IF s = <<>> \/ ~IsAsciiDigit(Head(s)) THEN 0 ELSE 1 + DigitRun(Tail(s))

RECURSIVE StripZeros(_)
StripZeros(ds) ==
  IF Len(ds) > 1 /\ Head(ds) = "0" THEN StripZeros(Tail(ds)) ELSE ds

\* ds <= es for two numerals of the same length
RECURSIVE NumeralLeq(_, _)
NumeralLeq(ds, es) ==
  IF ds = <<>> THEN TRUE
  ELSE IF DigitValue(Head(ds)) < DigitValue(Head(es)) THEN TRUE
  ELSE IF DigitValue(Head(ds)) > DigitValue(Head(es)) THEN FALSE
  ELSE NumeralLeq(Tail(ds), Tail(es))

\* i64::MAX = 9223372036854775807
I64MaxNumeral ==
  <<"9", "2", "2", "3", "3", "7", "2", "0", "3", "6", "8", "5", "4", "7", "7",
    "5", "8", "0", "7">>

\* FitsI64 of a parse that accepts every digit run
FitsI64_any(ds) == TRUE

\* Whether str::parse::<i64> accepts the digit run: its value is at most
\* i64::MAX (compared as numerals, the value may exceed TLC's integers).
FitsI64(ds) ==
  LET c == StripZeros(ds) IN
    \/ Len(c) < Len(I64MaxNumeral)
    \/ Len(c) = Len(I64MaxNumeral) /\ NumeralLeq(c, I64MaxNumeral)

RECURSIVE DecimalValue(_)
DecimalValue(ds) ==
  IF ds = <<>> THEN 0
  ELSE 10 * DecimalValue(SubSeq(ds, 1, Len(ds) - 1)) + DigitValue(ds[Len(ds)])

\* Expression::Number(num) for the digit run num_str that parse::<i64>
\* accepted
Literal(num_str) ==
  LET c == StripZeros(num_str) IN
    IF Len(c) <= LimbDigits THEN Number(DecimalValue(c))
    ELSE BigNumber(SubSeq(c, 1, Len(c) - LimbDigits),
                   DecimalValue(SubSeq(c, Len(c) - LimbDigits + 1, Len(c))))

RECURSIVE parse_add_sub(_, _), add_sub_loop(_, _), parse_mul_div(_, _),
          mul_div_loop(_, _), parse_primary(_, _)

parse_expression(input, exprs) == parse_add_sub(input, exprs)

\* add_sub_loop with its operand parsed by parse_primary: '+' and '-' would
\* bind as tightly as '*' and '/'
add_sub_loop_flat(rest, exprs) ==
  LET rest_trimmed == trim_start(rest) IN
    IF rest_trimmed # <<>> /\ Head(rest_trimmed) \in {"+", "-"}
    THEN LET op == IF Head(rest_trimmed) = "+" THEN "Add" ELSE "Subtract"
             r == parse_primary(Tail(rest_trimmed), exprs)
         IN IF ~r.ok THEN r
            ELSE add_sub_loop(r.rest, Append(r.exprs, Binary(op)))
    ELSE POk(rest, exprs)

\* the loop of parse_add_sub, entered with rest and the instructions so far
add_sub_loop(rest, exprs) ==
  LET rest_trimmed == trim_start(rest) IN
    IF rest_trimmed # <<>> /\ Head(rest_trimmed) \in {"+", "-"}
    THEN LET op == IF Head(rest_trimmed) = "+" THEN "Add" ELSE "Subtract"
             r == parse_mul_div(Tail(rest_trimmed), exprs)
         IN IF ~r.ok THEN r
            ELSE add_sub_loop(r.rest, Append(r.exprs, Binary(op)))
    ELSE POk(rest, exprs)

parse_add_sub(input, exprs) ==
  LET r == parse_mul_div(input, exprs) IN
    IF ~r.ok THEN r ELSE add_sub_loop(r.rest, r.exprs)

\* mul_div_loop pushing the operator before it parses the right operand
mul_div_loop_prefix(rest, exprs) ==
  LET rest_trimmed == trim_start(rest) IN
    IF rest_trimmed # <<>> /\ Head(rest_trimmed) \in {"*", "/"}
    THEN LET op == IF Head(rest_trimmed) = "*" THEN "Multiply" ELSE "Divide"
             r == parse_primary(Tail(rest_trimmed), Append(exprs, Binary(op)))
         IN IF ~r.ok THEN r
            ELSE mul_div_loop(r.rest, r.exprs)
    ELSE POk(rest, exprs)

\* the loop of parse_mul_div
mul_div_loop(rest, exprs) ==
  LET rest_trimmed == trim_start(rest) IN
    IF rest_trimmed # <<>> /\ Head(rest_trimmed) \in {"*", "/"}
    THEN LET op == IF Head(rest_trimmed) = "*" THEN "Multiply" ELSE "Divide"
             r == parse_primary(Tail(rest_trimmed), exprs)
         IN IF ~r.ok THEN r
            ELSE mul_div_loop(r.rest, Append(r.exprs, Binary(op)))
    ELSE POk(rest, exprs)

parse_mul_div(input, exprs) ==
  LET r == parse_primary(input, exprs) IN
    IF ~r.ok THEN r ELSE mul_div_loop(r.rest, r.exprs)

\* parse_primary without the check for the closing parenthesis
parse_primary_unclosed(input, exprs) ==
  LET s == trim_start(input) IN
    IF s # <<>> /\ Head(s) = "("
    THEN LET r == parse_expression(Tail(s), exprs) IN
           IF ~r.ok THEN r
           ELSE LET rest == trim_start(r.rest) IN
                  IF rest # <<>> /\ Head(rest) = ")"
                  THEN POk(Tail(rest), r.exprs)
                  ELSE POk(rest, r.exprs)
    ELSE LET i == DigitRun(s) IN
           IF i = 0 THEN PErr("ExpectedNumber")
           ELSE LET num_str == SubSeq(s, 1, i)
                    rest == SubSeq(s, i + 1, Len(s))
                IN IF ~FitsI64(num_str) THEN PErr("InvalidNumber")
                   ELSE POk(rest, Append(exprs, Literal(num_str)))

parse_primary(input, exprs) ==
  LET s == trim_start(input) IN
    IF s # <<>> /\ Head(s) = "("
    THEN LET r == parse_expression(Tail(s), exprs) IN
           IF ~r.ok THEN r
           ELSE LET rest == trim_start(r.rest) IN
                  IF rest # <<>> /\ Head(rest) = ")"
                  THEN POk(Tail(rest), r.exprs)
                  ELSE PErr("ExpectedCloseParen")
    ELSE LET i == DigitRun(s) IN
           IF i = 0 THEN PErr("ExpectedNumber")
           ELSE LET num_str == SubSeq(s, 1, i)
                    rest == SubSeq(s, i + 1, Len(s))
                IN IF ~FitsI64(num_str) THEN PErr("InvalidNumber")
                   ELSE POk(rest, Append(exprs, Literal(num_str)))

\* parse_input without the check of the remainder
parse_input_lax(input) ==
  LET r == parse_expression(input, <<>>) IN
    IF ~r.ok THEN r ELSE POk(<<>>, r.exprs)

\* Result<Vec<Expression>, String>: rest is empty in the result
parse_input(input) ==
  LET r == parse_expression(input, <<>>) IN
    IF ~r.ok THEN r
    ELSE IF trim(r.rest) # <<>> THEN PErr("TrailingInput")
    ELSE POk(<<>>, r.exprs)

\* The stack of calc_expression, by its length: Number pushes one handle,
\* Binary pops b and a (expect("Stack underflow")) and pushes the result.
\* The length after the loop from a stack of d entries, -1 when a pop
\* finds the stack empty.
RECURSIVE StackAfter(_, _)
StackAfter(exprs, d) ==
  IF exprs = <<>> THEN d
  ELSE IF Head(exprs).tag = "Number" THEN StackAfter(Tail(exprs), d + 1)
  ELSE IF d < 2 THEN -1
  ELSE StackAfter(Tail(exprs), d - 1)

(***************************************************************************)
(* Reference semantics of infix arithmetic, independent of the parser: an  *)
(* expression is split at its LAST operator of lowest precedence outside   *)
(* all parentheses (left associativity), else it is a parenthesised        *)
(* expression, else a literal.                                             *)
(***************************************************************************)
\* parenthesis depth in front of position i of t
DepthBefore(t, i) ==
  Cardinality({j \in 1..(i - 1) : t[j] = "("})
    - Cardinality({j \in 1..(i - 1) : t[j] = ")"})

TopLevelOps(t, ops) ==
  {i \in 1..Len(t) : t[i] \in ops /\ DepthBefore(t, i) = 0}

SetMax(S) == CHOOSE x \in S : \A y \in S : y <= x

OpOfChar(c) ==
  CASE c = "+" -> "Add" [] c = "-" -> "Subtract"
    [] c = "*" -> "Multiply" [] c = "/" -> "Divide"

RefInvalid == [valid |-> FALSE, post |-> <<>>]

\* a literal of the reference language: a run of digits below 10^18
RefLiteral(t) ==
  /\ t # <<>>
  /\ \A i \in 1..Len(t) : t[i] \in Digits
  /\ Len(StripZeros(t)) < Len(I64MaxNumeral)

\* the postfix program of s, or RefInvalid when s is not an expression
RECURSIVE RefParse(_)
RefParse(s) ==
  LET t == trim(s)
      add == TopLevelOps(t, {"+", "-"})
      mul == TopLevelOps(t, {"*", "/"})
      split == IF add # {} THEN SetMax(add)
               ELSE IF mul # {} THEN SetMax(mul) ELSE 0
  IN IF split # 0
     THEN LET l == RefParse(SubSeq(t, 1, split - 1))
              r == RefParse(SubSeq(t, split + 1, Len(t)))
          IN IF l.valid /\ r.valid
             THEN [valid |-> TRUE,
                   post |-> l.post \o r.post \o <<Binary(OpOfChar(t[split]))>>]
             ELSE RefInvalid
     ELSE IF Len(t) >= 2 /\ t[1] = "(" /\ t[Len(t)] = ")"
     THEN RefParse(SubSeq(t, 2, Len(t) - 1))
     ELSE IF RefLiteral(t)
     THEN [valid |-> TRUE, post |-> <<Number(DecimalValue(t))>>]
     ELSE RefInvalid

Abs(x) == IF x < 0 THEN -x ELSE x

\* integer division truncating toward zero (java.math.BigInteger.divide)
TruncDiv(a, b) ==
  IF (a < 0) = (b < 0) THEN Abs(a) \div Abs(b) ELSE -(Abs(a) \div Abs(b))

Undefined == [def |-> FALSE, v |-> 0]

Defined(v) == [def |-> TRUE, v |-> v]

Apply(op, a, b) ==
  IF ~a.def \/ ~b.def THEN Undefined
  ELSE CASE op = "Add" -> Defined(a.v + b.v)
         [] op = "Subtract" -> Defined(a.v - b.v)
         [] op = "Multiply" -> Defined(a.v * b.v)
         [] op = "Divide" -> IF b.v = 0 THEN Undefined
                             ELSE Defined(TruncDiv(a.v, b.v))

\* the value of an expression under standard precedence, by the same split
RECURSIVE RefValue(_)
RefValue(s) ==
  LET t == trim(s)
      add == TopLevelOps(t, {"+", "-"})
      mul == TopLevelOps(t, {"*", "/"})
      split == IF add # {} THEN SetMax(add)
               ELSE IF mul # {} THEN SetMax(mul) ELSE 0
  IN IF split # 0
     THEN Apply(OpOfChar(t[split]), RefValue(SubSeq(t, 1, split - 1)),
                RefValue(SubSeq(t, split + 1, Len(t))))
     ELSE IF Len(t) >= 2 /\ t[1] = "(" /\ t[Len(t)] = ")"
     THEN RefValue(SubSeq(t, 2, Len(t) - 1))
     ELSE IF RefLiteral(t) THEN Defined(DecimalValue(t))
     ELSE Undefined

\* a postfix program run on a stack of integers; Undefined on underflow, on
\* a division by zero, or when the stack does not end with one entry
RECURSIVE RunPostfix(_, _)
RunPostfix(exprs, stack) ==
  IF exprs = <<>>
  THEN IF Len(stack) = 1 THEN stack[1] ELSE Undefined
  ELSE LET e == Head(exprs) IN
    IF e.tag = "Number"
    THEN RunPostfix(Tail(exprs), Append(stack, Defined(e.n)))
    ELSE IF Len(stack) < 2 THEN Undefined
    ELSE LET b == stack[Len(stack)]
             a == stack[Len(stack) - 1]
         IN RunPostfix(Tail(exprs),
                       Append(SubSeq(stack, 1, Len(stack) - 2),
                              Apply(e.op, a, b)))

EvalPostfix(exprs) == RunPostfix(exprs, <<>>)

(***************************************************************************)
(* main.rs: the packets.  The codec (ore_jdwp) is outside this crate: a    *)
(* packet is the record of its decoded fields, and decoding is Decode.     *)
(***************************************************************************)
SigClass == "Ljava/lang/Class;"

SigLong == "Ljava/lang/Long;"

SigMethod == "Ljava/lang/reflect/Method;"

SigThrowable == "Ljava/lang/Throwable;"

SigClassArray == "[Ljava/lang/Class;"

SigObjectArray == "[Ljava/lang/Object;"

SigForName == "(Ljava/lang/String;)Ljava/lang/Class;"

SigGetMethod ==
  "(Ljava/lang/String;[Ljava/lang/Class;)Ljava/lang/reflect/Method;"

SigLongValueOf == "(J)Ljava/lang/Long;"

SigInvoke == "(Ljava/lang/Object;[Ljava/lang/Object;)Ljava/lang/Object;"

SigGetMessage == "()Ljava/lang/String;"

\* JDWPPacketDataFromDebugger: a command with its fields resolved.  thread,
\* object, clazz and method are handles, args are handles (or the long of
\* JDWPValue::Long), v is the length of ArrayTypeNewInstanceSend, str the
\* text of a signature or of a string to create.
Command(kind, thread, object, clazz, method, args, v, str) ==
  [kind |-> kind, thread |-> thread, object |-> object, clazz |-> clazz,
   method |-> method, args |-> args, v |-> v, str |-> str]

\* JDWPPacketDataFromDebuggee, and what is on the wire before decoding.
\* type: "reply" | "event" | "stray"; id: the command id a reply answers;
\* events: the event kinds of an EventComposite; tag/val: a tagged
\* JDWPValue (return_value, or the first of values); vals: the ids of
\* classes or threads; members: the declared methods or fields; exc: the
\* exception's object id; str/data: the text of a string.
Packet ==
  [type |-> "reply", id |-> 0, kind |-> "", events |-> <<>>, tag |-> "",
   val |-> 0, vals |-> <<>>, members |-> <<>>, exc |-> 0, str |-> "",
   data |-> <<>>]

NoPacket == [Packet EXCEPT !.type = "none"]

EventComposite(kinds) == [Packet EXCEPT !.type = "event", !.events = kinds]

StrayPacket == [Packet EXCEPT !.type = "stray"]

Reply(id, kind) == [Packet EXCEPT !.id = id, !.kind = kind]

\* event_composite.events.iter().any(|event| matches!(event.event_kind, k))
AnyEvent(packet, k) == \E i \in 1..Len(packet.events) : packet.events[i] = k

\* Whether the packet's fields hold identifiers, whose widths the Protocol
\* Context gives: every reply but the identifier sizes, every event but
\* the VM death (which holds a request id only).
PacketHasIds(packet) ==
  \/ packet.type = "reply" /\ packet.kind # "IDSizes"
  \/ packet.type = "event" /\ \E i \in 1..Len(packet.events) :
                                packet.events[i] # "VM_DEATH"

\* receive_packet(len, buf, &payloads, &context): TRUE when it returns
\* Some((packet, id)).  A reply is decoded by the type of the command it
\* answers, payloads[id].
Decode(packet, history, ctx) ==
  /\ packet.type # "stray"
  /\ PacketHasIds(packet) => ctx = "Some"
  /\ packet.type = "reply" => packet.id < Len(history)

(***************************************************************************)
(* The target: a JVM behind the JDWP agent.  Its heap is a sequence of     *)
(* objects; the handle of an object is its index (0 is null).  A class's   *)
(* reference type id and the object id of its java.lang.Class instance     *)
(* are one handle.                                                         *)
(***************************************************************************)
\* t: kind of entity; s: name or text; g: signature; o: owner (declaring
\* class); v: numeric value; a: array elements; d: text of a string built
\* by the target (a sequence of characters)
Obj(t, s, g, o, v, a, d) ==
  [t |-> t, s |-> s, g |-> g, o |-> o, v |-> v, a |-> a, d |-> d]

Simple(t, s, g, o) == Obj(t, s, g, o, 0, <<>>, <<>>)

MinOf(S) == CHOOSE x \in S : \A y \in S : x <= y

\* the members of a set of handles in ascending order
RECURSIVE Ascending(_)
Ascending(S) ==
  IF S = {} THEN <<>> ELSE <<MinOf(S)>> \o Ascending(S \ {MinOf(S)})

\* What a JVM holds before the debugger asks anything: two threads, the
\* classes jcalc looks up and their members (overloads included).  The
\* owner of a member is the index of its class in this sequence.
BootHeap ==
  << Simple("Thread", "main", "", 0),
     Simple("Thread", "Reference Handler", "", 0),
     Simple("Class", "java.lang.Class", SigClass, 0),
     Simple("Class", "java.lang.Long", SigLong, 0),
     Simple("Class", "java.lang.reflect.Method", SigMethod, 0),
     Simple("Class", "java.lang.Throwable", SigThrowable, 0),
     Simple("Class", "java.math.BigInteger", "Ljava/math/BigInteger;", 0),
     Simple("Class", "long", "J", 0),
     Simple("Class", "java.lang.Object[]", SigObjectArray, 0),
     Simple("Class", "java.lang.Class[]", SigClassArray, 0),
     Simple("MethodId", "forName",
            "(Ljava/lang/String;ZLjava/lang/ClassLoader;)Ljava/lang/Class;", 3),
     Simple("MethodId", "forName", SigForName, 3),
     Simple("MethodId", "getMethods", "()[Ljava/lang/reflect/Method;", 3),
     Simple("MethodId", "getMethod", SigGetMethod, 3),
     Simple("MethodId", "valueOf", "(Ljava/lang/String;)Ljava/lang/Long;", 4),
     Simple("MethodId", "valueOf", SigLongValueOf, 4),
     Simple("FieldId", "TYPE", "Ljava/lang/Class;", 4),
     Simple("MethodId", "invoke", SigInvoke, 5),
     Simple("MethodId", "getMessage", SigGetMessage, 6) >>

NullObj == Simple("null", "", "", 0)

HeapAt(h, i) == IF i \in 1..Len(h) THEN h[i] ELSE NullObj

\* the decimal numeral of a natural number, then of an integer
\* (BigInteger.toString)
RECURSIVE NatDecimal(_)
NatDecimal(n) ==
  LET d == <<"0", "1", "2", "3", "4", "5", "6", "7", "8", "9">>[(n % 10) + 1]
  IN IF n < 10 THEN <<d>> ELSE Append(NatDecimal(n \div 10), d)

ToDecimal(v) == IF v < 0 THEN <<"-">> \o NatDecimal(-v) ELSE NatDecimal(v)

\* the declared members (methods or fields) of class clazz, in heap order
Declared(h, t, clazz) ==
  LET ids == Ascending({i \in 1..Len(h) : h[i].t = t /\ h[i].o = clazz})
  IN [k \in 1..Len(ids) |->
        [name |-> h[ids[k]].s, signature |-> h[ids[k]].g, id |-> ids[k]]]

\* java.lang.reflect.Method.invoke(receiver, varargs) on the Method
\* instance m: the static BigInteger.valueOf(long), the BigInteger
\* arithmetic, BigInteger.toString.  A division by zero throws; nullMsg
\* says whether the thrown exception's getMessage() is null (the
\* InvocationTargetException that wraps it) or a text.
MethodInvoke(R, h, m, receiver, varargs, nullMsg) ==
  LET name == HeapAt(h, m).s
      arg == IF HeapAt(h, varargs).a = <<>> THEN 0 ELSE HeapAt(h, varargs).a[1]
      a == HeapAt(h, receiver).v
      b == HeapAt(h, arg).v
      big(v) == [reply |-> [R EXCEPT !.tag = "Object", !.val = Len(h) + 1],
                 heap |-> Append(h, Obj("BigInteger", "", "", 0, v, <<>>, <<>>))]
  IN CASE name = "valueOf" -> big(b)
       [] name = "add" -> big(a + b)
       [] name = "subtract" -> big(a - b)
       [] name = "multiply" -> big(a * b)
       [] name = "divide" ->
            IF b = 0
            THEN [reply |-> [R EXCEPT !.tag = "Object", !.exc = Len(h) + 1],
                  heap |-> Append(h, Simple("Exception",
                             IF nullMsg THEN "" ELSE "BigInteger divide by zero",
                             IF nullMsg THEN "null" ELSE "text", 0))]
            ELSE big(TruncDiv(a, b))
       [] name = "toString" ->
            [reply |-> [R EXCEPT !.tag = "String", !.val = Len(h) + 1],
             heap |-> Append(h, Obj("String", "", "", 0, 0, <<>>, ToDecimal(a)))]
       [] OTHER -> [reply |-> [R EXCEPT !.tag = "Void"], heap |-> h]

\* What the target does with command c of command id `id`: its reply and
\* its heap afterwards.  absent: the signatures of the classes it has not
\* loaded.
Exec(c, id, h, absent, nullMsg) ==
  LET R == Reply(id, c.kind)
      same(r) == [reply |-> r, heap |-> h]
      fresh(r, o) == [reply |-> [r EXCEPT !.val = Len(h) + 1], heap |-> Append(h, o)]
      m == HeapAt(h, c.method).g
  IN CASE c.kind \in {"IDSizes", "EventRequestSet", "Resume"} -> same(R)
       [] c.kind = "AllThreads" ->
            same([R EXCEPT !.vals =
                    Ascending({i \in 1..Len(h) : h[i].t = "Thread"})])
       [] c.kind = "ClassesBySignature" ->
            same([R EXCEPT !.vals =
                    Ascending({i \in 1..Len(h) :
                       /\ h[i].t = "Class"
                       /\ h[i].g = c.str
                       /\ c.str \notin absent})])
       [] c.kind = "Methods" ->
            same([R EXCEPT !.members = Declared(h, "MethodId", c.clazz)])
       [] c.kind = "Fields" ->
            same([R EXCEPT !.members = Declared(h, "FieldId", c.clazz)])
       [] c.kind = "GetValues" ->
            \* Long.TYPE: the class object of the primitive long
            same([R EXCEPT !.tag = "ClassObject",
                           !.vals = <<MinOf({i \in 1..Len(h) : h[i].g = "J"})>>])
       [] c.kind = "CreateString" ->
            fresh([R EXCEPT !.tag = "String"], Simple("String", c.str, "", 0))
       [] c.kind = "NewInstance" ->
            fresh([R EXCEPT !.tag = "Array"],
                  Obj("Array", "", "", 0, 0, [i \in 1..c.v |-> 0], <<>>))
       [] c.kind = "SetValues" ->
            [reply |-> R,
             heap |-> IF c.object \in 1..Len(h)
                      THEN [h EXCEPT ![c.object].a = c.args] ELSE h]
       [] c.kind = "StringValue" ->
            same([R EXCEPT !.str = HeapAt(h, c.object).s,
                           !.data = HeapAt(h, c.object).d])
       [] c.kind = "ClassInvoke" /\ m = SigForName ->
            LET name == HeapAt(h, c.args[1]).s
                found == {i \in 1..Len(h) : h[i].t = "Class" /\ h[i].s = name}
            IN same([R EXCEPT !.tag = "ClassObject",
                              !.val = IF found = {} THEN 0 ELSE MinOf(found)])
       [] c.kind = "ClassInvoke" /\ m = SigLongValueOf ->
            fresh([R EXCEPT !.tag = "Object"],
                  Obj("Long", "", "", 0, c.args[1], <<>>, <<>>))
       [] c.kind = "ObjectInvoke" /\ m = SigGetMethod ->
            fresh([R EXCEPT !.tag = "Object"],
                  Simple("Method", HeapAt(h, c.args[1]).s, "", c.object))
       [] c.kind = "ObjectInvoke" /\ m = SigInvoke ->
            MethodInvoke(R, h, c.object, c.args[1], c.args[2], nullMsg)
       [] c.kind = "ObjectInvoke" /\ m = SigGetMessage ->
            IF HeapAt(h, c.object).g = "null"
            THEN same([R EXCEPT !.tag = "Object", !.val = 0])
            ELSE fresh([R EXCEPT !.tag = "String"],
                       Simple("String", HeapAt(h, c.object).s, "", 0))
       [] OTHER -> same([R EXCEPT !.tag = "Void"])

(***************************************************************************)
(* main.rs, the send task.  A step of handle_send or of a SendHandler      *)
(* helper that issues one command is an Op: the command's fields name the  *)
(* locals (registers) that hold its handles, h names the code that reads   *)
(* the reply, dst the local the result is bound to ("push": the            *)
(* evaluation stack), onerr what the caller does with an Err ("return":    *)
(* the ? operator, "panic": expect / unwrap).                              *)
(***************************************************************************)
Op(kind, object, clazz, method, args, v, str, sig, h, dst, onerr) ==
  [kind |-> kind, object |-> object, clazz |-> clazz, method |-> method,
   args |-> args, v |-> v, str |-> str, sig |-> sig, h |-> h, dst |-> dst,
   onerr |-> onerr]

Registers ==
  { "null", "current_thread", "clazz_of_class", "method_class_for_name",
    "method_get_method", "clazz_long", "method_long_value_of",
    "field_long_type", "class_long", "string_big_integer",
    "class_big_integer", "name", "arg", "value_of_method_instance",
    "add_method_instance", "subtract_method_instance",
    "multiply_method_instance", "divide_method_instance",
    "to_string_method_instance", "clazz_method", "invoke_method",
    "clazz_array", "new_array_untagged", "n", "long_obj", "a", "b",
    "varargs", "result_bigint", "result_string_obj", "exception", "th",
    "get_message_method", "return_value" }

\* SendHandler::send_and_receive of a command without handles
Plain(kind, h, dst) ==
  Op(kind, "null", "null", "null", <<>>, 0, "", "", h, dst, "return")

\* SendHandler::find_class(signature); onerr is the caller's
find_class(signature, dst, onerr) ==
  Op("ClassesBySignature", "null", "null", "null", <<>>, 0, signature, "",
     "find_class", dst, onerr)

\* SendHandler::find_method(class_id, method_name, signature)
find_method(class_id, method_name, signature, dst) ==
  Op("Methods", "null", class_id, "null", <<>>, 0, method_name, signature,
     "find_member", dst, "return")

\* SendHandler::find_field(class_id, field_name, signature)
find_field(class_id, field_name, signature, dst) ==
  Op("Fields", "null", class_id, "null", <<>>, 0, field_name, signature,
     "find_member", dst, "return")

\* SendHandler::load_string(s)
load_string(str, dst, onerr) ==
  Op("CreateString", "null", "null", "null", <<>>, 0, str, "",
     "load_string", dst, onerr)

\* SendHandler::invoke_class_method_return_object(clazz, method_id, thread, args)
invoke_class_method_return_object(clazz, method_id, args, dst) ==
  Op("ClassInvoke", "null", clazz, method_id, args, 0, "", "",
     "class_ret", dst, "return")

\* SendHandler::invoke_object_method_return_object(clazz, object, method_id,
\* thread, args)
invoke_object_method_return_object(clazz, object, method_id, args, dst) ==
  Op("ObjectInvoke", object, clazz, method_id, args, 0, "", "",
     "object_ret", dst, "return")

\* SendHandler::create_jvm_array_from_jdwpvalues(elements_signature, values):
\* find the array class, allocate, set the values
create_jvm_array_from_jdwpvalues(elements_signature, values, dst) ==
  << find_class(elements_signature, "clazz_array", "return"),
     Op("NewInstance", "null", "clazz_array", "null", <<>>, Len(values), "",
        "", "new_array", "new_array_untagged", "return"),
     Op("SetValues", "new_array_untagged", "null", "null", values, 0, "", "",
        "set_values", dst, "return") >>

\* SendHandler::get_exception_string(exception, thread), then the Err of
\* invoke_object_method_return_object that holds its text
get_exception_string ==
  << find_class(SigThrowable, "th", "return"),
     find_method("th", "getMessage", SigGetMessage, "get_message_method"),
     Op("ObjectInvoke", "exception", "th", "get_message_method", <<>>, 0, "",
        "", "exc_message", "return_value", "return"),
     Op("StringValue", "return_value", "null", "null", <<>>, 0, "", "",
        "exc_string", "", "return") >>

\* the block of handle_send that obtains the Method instance of
\* BigInteger.<name>(<param>)
GetMethodInstance(name, param, dst) ==
  << load_string(name, "name", "return") >>
    \o create_jvm_array_from_jdwpvalues(SigClassArray, <<param>>, "arg")
    \o << invoke_object_method_return_object("clazz_of_class",
            "class_big_integer", "method_get_method", <<"name", "arg">>, dst) >>

\* handle_send up to the choice of the mode, one Op per command; "Barrier"
\* is the wait for the class-prepare event
SetupOps ==
  << Plain("IDSizes", "id_sizes", ""),
     Plain("EventRequestSet", "unit", ""),
     Plain("Resume", "unit", ""),
     Plain("Barrier", "", ""),
     Plain("AllThreads", "all_threads", "current_thread"),
     find_class(SigClass, "clazz_of_class", "panic"),
     find_method("clazz_of_class", "forName", SigForName,
                 "method_class_for_name"),
     find_method("clazz_of_class", "getMethod", SigGetMethod,
                 "method_get_method"),
     find_class(SigLong, "clazz_long", "panic"),
     find_method("clazz_long", "valueOf", SigLongValueOf,
                 "method_long_value_of"),
     find_field("clazz_long", "TYPE", "Ljava/lang/Class;", "field_long_type"),
     Op("GetValues", "null", "clazz_long", "null", <<"field_long_type">>, 0,
        "", "", "get_values", "class_long", "return"),
     load_string("java.math.BigInteger", "string_big_integer", "panic"),
     invoke_class_method_return_object("clazz_of_class",
        "method_class_for_name", <<"string_big_integer">>,
        "class_big_integer") >>
    \o GetMethodInstance("valueOf", "class_long", "value_of_method_instance")
    \o GetMethodInstance("add", "class_big_integer", "add_method_instance")
    \o GetMethodInstance("subtract", "class_big_integer",
                         "subtract_method_instance")
    \o GetMethodInstance("multiply", "class_big_integer",
                         "multiply_method_instance")
    \o GetMethodInstance("divide", "class_big_integer",
                         "divide_method_instance")
    \o << load_string("toString", "name", "return"),
          invoke_object_method_return_object("clazz_of_class",
             "class_big_integer", "method_get_method", <<"name", "null">>,
             "to_string_method_instance"),
          find_class(SigMethod, "clazz_method", "return"),
          find_method("clazz_method", "invoke", SigInvoke, "invoke_method") >>

\* calc_expression, Expression::Number(n): Long.valueOf(n), the varargs
\* array, Method.invoke of BigInteger.valueOf; the result is pushed
NumberOps ==
  << invoke_class_method_return_object("clazz_long", "method_long_value_of",
                                       <<"n">>, "long_obj") >>
    \o create_jvm_array_from_jdwpvalues(SigObjectArray, <<"long_obj">>, "arg")
    \o << invoke_object_method_return_object("clazz_method",
            "value_of_method_instance", "invoke_method", <<"null", "arg">>,
            "push") >>

\* OpMethodInstance with every operator taking the arm of Add
OpMethodInstance_add(op) == "add_method_instance"

\* match op { .. }: the Method instance of the operator
OpMethodInstance(op) ==
  CASE op = "Add" -> "add_method_instance"
    [] op = "Subtract" -> "subtract_method_instance"
    [] op = "Multiply" -> "multiply_method_instance"
    [] op = "Divide" -> "divide_method_instance"

\* BinaryOps with the operands exchanged: b is the receiver and a is
\* wrapped in the array
BinaryOps_swapped(op) ==
  create_jvm_array_from_jdwpvalues(SigObjectArray, <<"a">>, "varargs")
    \o << invoke_object_method_return_object("clazz_method",
            OpMethodInstance(op), "invoke_method", <<"b", "varargs">>,
            "push") >>

\* calc_expression, Expression::Binary(op), after b and a were popped
BinaryOps(op) ==
  create_jvm_array_from_jdwpvalues(SigObjectArray, <<"b">>, "varargs")
    \o << invoke_object_method_return_object("clazz_method",
            OpMethodInstance(op), "invoke_method", <<"a", "varargs">>,
            "push") >>

\* calc_expression after the loop: toString, then the string's value
ResultOps ==
  << invoke_object_method_return_object("clazz_method",
        "to_string_method_instance", "invoke_method",
        <<"result_bigint", "null">>, "result_string_obj"),
     Op("StringValue", "result_string_obj", "null", "null", <<>>, 0, "", "",
        "result_string", "", "return") >>

\* Resolve with get_exception_string invoking on a thread of its own
Resolve_exception_thread(op, regs) ==
  Command(op.kind,
          IF op.kind = "ClassInvoke" THEN regs["current_thread"]
          ELSE IF op.kind = "ObjectInvoke"
               THEN IF op.h = "exc_message" THEN regs["current_thread"] + 1
                    ELSE regs["current_thread"]
               ELSE 0,
          regs[op.object], regs[op.clazz], regs[op.method],
          [i \in 1..Len(op.args) |-> regs[op.args[i]]], op.v,
          IF op.kind \in {"ClassesBySignature", "CreateString"}
          THEN op.str ELSE "")

\* the command of an Op, its handles read from the locals; every invoke
\* command is given the thread the caller passes down, current_thread
Resolve(op, regs) ==
  Command(op.kind,
          IF op.kind \in {"ClassInvoke", "ObjectInvoke"}
          THEN regs["current_thread"] ELSE 0,
          regs[op.object], regs[op.clazz], regs[op.method],
          [i \in 1..Len(op.args) |-> regs[op.args[i]]], op.v,
          IF op.kind \in {"ClassesBySignature", "CreateString"}
          THEN op.str ELSE "")

\* FindMember comparing the names only
FindMember_by_name(members, name, signature) ==
  LET hits == {i \in 1..Len(members) : members[i].name = name}
  IN IF hits = {} THEN 0 ELSE members[MinOf(hits)].id

\* the first declared member whose name and signature both match
FindMember(members, name, signature) ==
  LET hits == {i \in 1..Len(members) :
                 members[i].name = name /\ members[i].signature = signature}
  IN IF hits = {} THEN 0 ELSE members[MinOf(hits)].id

\* What the caller of send_and_receive does with the reply packet `r` to
\* the command of op: res is "ok" (val is the result), "err" (msg is the
\* Err), "panic", or "exc" (val is the exception to describe).
Outcome(res, val, msg) == [res |-> res, val |-> val, msg |-> msg]

Handle(op, r, regs) ==
  CASE op.h = "unit" -> Outcome("ok", 0, "")
    [] op.h = "set_values" -> Outcome("ok", regs["new_array_untagged"], "")
    [] r.kind # op.kind -> Outcome("panic", 0, "")
    [] op.h \in {"id_sizes", "load_string", "new_array"} ->
         Outcome("ok", r.val, "")
    [] op.h \in {"all_threads", "find_class"} ->
         IF r.vals = <<>> THEN Outcome("panic", 0, "")
         ELSE Outcome("ok", r.vals[1], "")
    [] op.h = "find_member" ->
         LET id == FindMember(r.members, op.str, op.sig) IN
           IF id = 0
           THEN Outcome("err", 0, IF op.kind = "Methods" THEN "MethodNotFound"
                                  ELSE "FieldNotFound")
           ELSE Outcome("ok", id, "")
    [] op.h = "get_values" ->
         IF r.vals = <<>> THEN Outcome("err", 0, "NoFieldValue")
         ELSE IF r.tag \in {"Object", "ClassObject"}
         THEN Outcome("ok", r.vals[1], "")
         ELSE Outcome("err", 0, "UnexpectedReturnType")
    [] op.h = "class_ret" ->
         IF r.tag \in {"Object", "ClassObject"} THEN Outcome("ok", r.val, "")
         ELSE Outcome("err", 0, "UnexpectedReturnType")
    [] op.h = "object_ret" ->
         IF r.exc # 0 THEN Outcome("exc", r.exc, "")
         ELSE IF r.tag \in {"Object", "Array", "ClassObject", "String"}
         THEN Outcome("ok", r.val, "")
         ELSE Outcome("err", 0, "UnexpectedReturnType")
    [] op.h = "exc_message" ->
         IF r.tag = "String" THEN Outcome("ok", r.val, "")
         ELSE Outcome("panic", 0, "")
    [] op.h = "exc_string" -> Outcome("err", 0, "RemoteInvocationException")
    [] op.h = "result_string" -> Outcome("ok", 0, "")

(***************************************************************************)
(* main.rs, the session: the receive task (handle_receive), the send task  *)
(* (handle_send) and the target at the other end of the socket.            *)
(***************************************************************************)
MaxNoise == 1

MaxLines == 2

MaxMembers == 3

VARIABLES
  p_input,      \* the &str handed to parse_input
  p_result,     \* what parse_input returned
  p_pc,         \* "init" before the call, "done" after it
  lk_kind,      \* the lookup helper called: "method" | "field"
  lk_members,   \* the declared members in the reply to the lookup's command
  lk_name,      \* the name asked for
  lk_signature, \* the signature asked for
  lk_result,    \* what the helper returned
  lk_pc,        \* "init" before the call, "done" after it
  mpc,          \* where main is: "handshake" | "running" | "exited"
  hs,           \* buf, the 14 bytes read back after the banner was written
  payloads,     \* Arc<Mutex<Vec<JDWPPacketDataFromDebugger>>>, the contents
  payloadsLock, \* who holds the Mutex of payloads: "free" | "recv"
  context,      \* JDWPContext.id_sizes: "None" | "Some"
  contextLock,  \* who holds the Mutex of context: "free" | "recv" | "send"
  channel,      \* the mpsc channel from the receive to the send task
  wire,         \* packets written by the target, not yet read
  towire,       \* commands written by send_packet, not yet taken by the target
  tstate,       \* the target: "running" | "dead" (after VM death) | "closed"
  watch,        \* the class-prepare request: "none"|"armed"|"resumed"|"fired"
  heap,         \* the target's objects
  absent,       \* signatures of classes the target has not loaded
  noise,        \* unrequested events and undecodable packets sent so far
  rpc,          \* where handle_receive is
  rbuf,         \* buf, the packet read
  rdecoded,     \* packet_and_id.is_some()
  rctx,         \* history: id_sizes as receive_packet saw it for buf
  rboot,        \* history: was buf read "before" the IDSizes reply, is it
                \* the "reply", or was it read "after"
  dropped,      \* history: the rboot of the packets discarded by `continue`
  spc,          \* where handle_send is
  ip,           \* the next step of SetupOps
  ops,          \* the commands left of the helper or instruction under way
  regs,         \* the locals that hold handles
  exprs,        \* calc_expression: the instructions left
  stack,        \* calc_expression: stack
  input,        \* the text given to calc_expression (interactive: `input`)
  mode,         \* "" during setup, then "single" | "interactive" | "piped"
  nlines,       \* lines read from stdin so far
  cmd_id,       \* SendHandler.cmd_id
  calc_result,  \* what calc_expression returned last
  stdout,       \* the lines printed on stdout
  last,         \* history: the last call of send_and_receive and its return
  terminated    \* history: send_and_receive has returned Err("VM DEATH")

parserVars == <<p_input, p_result, p_pc>>

lookupVars ==
  <<lk_kind, lk_members, lk_name, lk_signature, lk_result, lk_pc>>

mainVars == <<mpc, hs>>

sharedVars == <<payloads, payloadsLock, context, contextLock, channel>>

targetVars == <<wire, towire, tstate, watch, heap, absent, noise>>

recvVars == <<rpc, rbuf, rdecoded, rctx, rboot, dropped>>

sendVars ==
  <<spc, ip, ops, regs, exprs, stack, input, mode, nlines, cmd_id,
    calc_result, stdout, last, terminated>>

vars ==
  <<parserVars, lookupVars, mainVars, sharedVars, targetVars, recvVars,
    sendVars>>

NoResult == [res |-> "none", data |-> <<>>, err |-> ""]

Ok(data) == [res |-> "ok", data |-> data, err |-> ""]

Err(e) == [res |-> "err", data |-> <<>>, err |-> e]

NoCall == [cmd |-> -1, ret |-> "none", type |-> "", id |-> -1, kind |-> "",
           events |-> 0]

\* the state when main has split the stream and spawned both tasks
InitSession ==
  /\ payloads = <<>>
  /\ payloadsLock = "free"
  /\ context = "None"
  /\ contextLock = "free"
  /\ channel = <<>>
  /\ wire = <<>>
  /\ towire = <<>>
  /\ tstate = "running"
  /\ watch = "none"
  /\ heap = BootHeap
  /\ noise = 0
  /\ rpc = "read"
  /\ rbuf = NoPacket
  /\ rdecoded = FALSE
  /\ rctx = "None"
  /\ rboot = "before"
  /\ dropped = {}
  /\ spc = "send"
  /\ ip = 1
  /\ ops = <<>>
  /\ regs = [r \in Registers |-> 0]
  /\ exprs = <<>>
  /\ stack = <<>>
  /\ input = <<>>
  /\ mode = ""
  /\ nlines = 0
  /\ cmd_id = 0
  /\ calc_result = NoResult
  /\ stdout = <<>>
  /\ last = NoCall
  /\ terminated = FALSE

\* no lookup under way, no parse under way
InitIdle ==
  /\ lk_kind = "method"
  /\ lk_members = <<>>
  /\ lk_name = ""
  /\ lk_signature = ""
  /\ lk_result = [res |-> "none", val |-> 0, msg |-> ""]
  /\ lk_pc = "off"

\* main has connected: buf is zeroed, nothing is spawned yet
Init ==
  /\ InitSession
  /\ mpc = "handshake"
  /\ hs = [i \in 1..14 |-> "0"]
  /\ absent \in {{}, {SigClassArray}}
  /\ p_input = <<>>
  /\ p_result = PErr("")
  /\ p_pc = "off"
  /\ InitIdle

SendEnded == spc \in {"done", "failed", "panicked"}

RecvEnded == rpc \in {"done", "panicked"}

(***************************************************************************)
(* handle_receive                                                          *)
(***************************************************************************)
\* reader.read_u32(), read_exact: one packet, or the end of the stream
R_Read ==
  /\ rpc = "read"
  /\ \/ /\ wire # <<>>
        /\ rbuf' = Head(wire)
        /\ wire' = Tail(wire)
        /\ rpc' = "lockPayloads"
        /\ rboot' = IF Head(wire).type = "reply" /\ Head(wire).kind = "IDSizes"
                    THEN "reply"
                    ELSE IF rboot = "before" THEN "before" ELSE "after"
     \/ /\ wire = <<>>
        /\ tstate = "closed"
        /\ rpc' = "done"
        /\ UNCHANGED <<rbuf, wire, rboot>>
  /\ UNCHANGED <<parserVars, lookupVars, mainVars, sharedVars, towire,
                 tstate, watch, heap, absent, noise, rdecoded, rctx, dropped,
                 sendVars>>

\* payloads.lock().await, the first argument of receive_packet
R_LockPayloads ==
  /\ rpc = "lockPayloads"
  /\ payloadsLock = "free"
  /\ payloadsLock' = "recv"
  /\ rpc' = "lockContext"
  /\ UNCHANGED <<parserVars, lookupVars, mainVars, payloads, context,
                 contextLock, channel, targetVars, rbuf, rdecoded, rctx,
                 rboot, dropped, sendVars>>

\* R_Decode with the receive task storing the identifier sizes itself when
\* it decodes their reply
R_Decode_sets_context ==
  /\ rpc = "lockContext"
  /\ contextLock = "free"
  /\ rdecoded' = Decode(rbuf, payloads, context)
  /\ rctx' = context
  /\ context' = IF rbuf.type = "reply" /\ rbuf.kind = "IDSizes"
                THEN "Some" ELSE context
  /\ payloadsLock' = "free"
  /\ rpc' = "check"
  /\ UNCHANGED <<parserVars, lookupVars, mainVars, payloads, contextLock,
                 channel, targetVars, rbuf, rboot, dropped, sendVars>>

\* context.lock().await with the payloads guard held, receive_packet, then
\* both guards dropped at the end of the statement
R_Decode ==
  /\ rpc = "lockContext"
  /\ contextLock = "free"
  /\ rdecoded' = Decode(rbuf, payloads, context)
  /\ rctx' = context
  /\ payloadsLock' = "free"
  /\ rpc' = "check"
  /\ UNCHANGED <<parserVars, lookupVars, mainVars, payloads, context,
                 contextLock, channel, targetVars, rbuf, rboot, dropped,
                 sendVars>>

\* R_Check without the `continue`: every decode failure is fatal
R_Check_always_fatal ==
  /\ rpc = "check"
  /\ contextLock = "free"
  /\ rpc' = IF ~rdecoded THEN "diagnose" ELSE "forward"
  /\ UNCHANGED <<parserVars, lookupVars, mainVars, sharedVars, targetVars,
                 rbuf, rdecoded, rctx, rboot, dropped, sendVars>>

\* if context.lock().await.id_sizes.is_none() && packet_and_id.is_none()
\* { continue }, then if packet_and_id.is_none()
R_Check ==
  /\ rpc = "check"
  /\ contextLock = "free"
  /\ IF context = "None" /\ ~rdecoded
     THEN rpc' = "read" /\ dropped' = dropped \cup {rboot}
     ELSE /\ rpc' = IF ~rdecoded THEN "diagnose" ELSE "forward"
          /\ dropped' = dropped
  /\ UNCHANGED <<parserVars, lookupVars, mainVars, sharedVars, targetVars,
                 rbuf, rdecoded, rctx, rboot, sendVars>>

\* R_Diagnose with a `continue` in the place of the panic!
R_Diagnose_continue ==
  /\ rpc = "diagnose"
  /\ payloadsLock = "free"
  /\ rpc' = "read"
  /\ UNCHANGED <<parserVars, lookupVars, mainVars, sharedVars, targetVars,
                 rbuf, rdecoded, rctx, rboot, dropped, sendVars>>

\* the dump of the packet, payloads.lock().await[id], panic!
R_Diagnose ==
  /\ rpc = "diagnose"
  /\ payloadsLock = "free"
  /\ rpc' = "panicked"
  /\ UNCHANGED <<parserVars, lookupVars, mainVars, sharedVars, targetVars,
                 rbuf, rdecoded, rctx, rboot, dropped, sendVars>>

\* channel_tx.send(packet).await.unwrap(): an Err once the receiver is gone
R_Forward ==
  /\ rpc = "forward"
  /\ IF SendEnded
     THEN rpc' = "panicked" /\ channel' = channel
     ELSE rpc' = "read" /\ channel' = Append(channel, rbuf)
  /\ UNCHANGED <<parserVars, lookupVars, mainVars, payloads, payloadsLock,
                 context, contextLock, targetVars, rbuf, rdecoded, rctx,
                 rboot, dropped, sendVars>>

RecvNext ==
  \/ R_Read
  \/ R_LockPayloads
  \/ R_Decode
  \/ R_Check
  \/ R_Diagnose
  \/ R_Forward

(***************************************************************************)
(* The target                                                              *)
(***************************************************************************)
\* The target takes the next command and answers it.  nullMsg: see
\* MethodInvoke.  early: the watched class is prepared as soon as the
\* threads run, and its event is written before the reply to Resume.
T_Reply ==
  /\ tstate = "running"
  /\ towire # <<>>
  /\ \E nullMsg \in BOOLEAN, early \in BOOLEAN :
       LET c == Head(towire).cmd
           x == Exec(c, Head(towire).id, heap, absent, nullMsg)
           fire == early /\ c.kind = "Resume" /\ watch = "armed"
       IN /\ heap' = x.heap
          /\ wire' = IF fire
                     THEN wire \o <<EventComposite(<<"CLASS_PREPARE">>), x.reply>>
                     ELSE Append(wire, x.reply)
          /\ watch' = CASE c.kind = "EventRequestSet" /\ watch = "none" -> "armed"
                        [] c.kind = "Resume" /\ watch = "armed" ->
                             IF fire THEN "fired" ELSE "resumed"
                        [] OTHER -> watch
  /\ towire' = Tail(towire)
  /\ UNCHANGED <<parserVars, lookupVars, mainVars, sharedVars, tstate,
                 absent, noise, recvVars, sendVars>>

\* the watched class is prepared: its event, and the threads are suspended
T_ClassPrepare ==
  /\ tstate = "running"
  /\ watch = "resumed"
  /\ watch' = "fired"
  /\ wire' = Append(wire, EventComposite(<<"CLASS_PREPARE">>))
  /\ UNCHANGED <<parserVars, lookupVars, mainVars, sharedVars, towire,
                 tstate, heap, absent, noise, recvVars, sendVars>>

\* an event nobody asked for (the VM start event of a suspended launch, a
\* thread start): its fields hold identifiers
T_Event ==
  /\ tstate = "running"
  /\ noise < MaxNoise
  /\ noise' = noise + 1
  /\ wire' = Append(wire, EventComposite(<<"VM_START">>))
  /\ UNCHANGED <<parserVars, lookupVars, mainVars, sharedVars, towire,
                 tstate, watch, heap, absent, recvVars, sendVars>>

\* the VM dies: the VM death event is the last packet it writes
T_Death ==
  /\ tstate = "running"
  /\ tstate' = "dead"
  /\ wire' = Append(wire, EventComposite(<<"VM_DEATH">>))
  /\ UNCHANGED <<parserVars, lookupVars, mainVars, sharedVars, towire, watch,
                 heap, absent, noise, recvVars, sendVars>>

\* the connection ends
T_Close ==
  /\ tstate \in {"running", "dead"}
  /\ tstate' = "closed"
  /\ UNCHANGED <<parserVars, lookupVars, mainVars, sharedVars, wire, towire,
                 watch, heap, absent, noise, recvVars, sendVars>>

\* a packet the codec cannot decode
T_Stray ==
  /\ tstate = "running"
  /\ noise < MaxNoise
  /\ noise' = noise + 1
  /\ wire' = Append(wire, StrayPacket)
  /\ UNCHANGED <<parserVars, lookupVars, mainVars, sharedVars, towire,
                 tstate, watch, heap, absent, recvVars, sendVars>>

TargetNext ==
  \/ T_Reply
  \/ T_ClassPrepare
  \/ T_Event
  \/ T_Death
  \/ T_Close
  \/ T_Stray

(***************************************************************************)
(* handle_send                                                             *)
(***************************************************************************)
\* what the user gives: the --expression argument, the lines typed
Expressions ==
  { <<"2", "*", "3", "+", "4">>,
    <<"7", "-", "6", "/", "(", "1", "+", "1", ")">>,
    <<"1", "/", "0">> }

Lines ==
  { <<"1">>, <<"+", "1">>, <<"1", "/", "0">>, <<"e", "x", "i", "t">> }

\* the Op whose command is being sent or awaited
CurOp == IF ops # <<>> THEN Head(ops) ELSE SetupOps[ip]

\* RecvMatch with the first arm guarded by the VM death alone: any other
\* event batch falls to the second arm
RecvMatch_first_packet(packet) ==
  IF packet.type = "event" /\ AnyEvent(packet, "VM_DEATH") THEN "death"
  ELSE "reply"

\* the arm of the match in send_and_receive that a packet from the queue
\* takes: "death" returns Err("VM DEATH"), "discard" loops, "reply" returns
\* Ok(packet)
RecvMatch(packet) ==
  IF packet.type = "event"
  THEN IF AnyEvent(packet, "VM_DEATH") THEN "death" ELSE "discard"
  ELSE "reply"

\* where handle_send goes on when ops2 and ip2 are what is left to do
NextPc(ops2, ip2) ==
  IF ops2 # <<>> THEN "send"
  ELSE IF ip2 <= Len(SetupOps)
  THEN IF SetupOps[ip2].kind = "Barrier" THEN "barrier" ELSE "send"
  ELSE IF mode = "" THEN "mode" ELSE "instr"

\* a helper has bound its result: the next command
OpDone ==
  LET ops2 == IF ops # <<>> THEN Tail(ops) ELSE ops
      ip2 == IF ops # <<>> THEN ip ELSE ip + 1
  IN /\ ops' = ops2
     /\ ip' = ip2
     /\ spc' = NextPc(ops2, ip2)

\* calc_expression returns r to the match of its mode: the single-shot
\* and the piped mode print or return the Err, the interactive loop
\* prints and reads the next line
CalcReturn(r, out) ==
  /\ calc_result' = r
  /\ ops' = <<>>
  /\ exprs' = <<>>
  /\ stack' = <<>>
  /\ stdout' = IF r.res = "ok" THEN Append(out, r.data) ELSE out
  /\ spc' = IF mode = "interactive" THEN "readline"
            ELSE IF r.res = "ok" THEN "done" ELSE "failed"

\* an Err reaches the caller: during the setup handle_send returns it (?)
\* or panics (expect, unwrap); in calc_expression it is the return value
SendErr(e, out) ==
  IF mode = ""
  THEN /\ spc' = IF CurOp.onerr = "panic" THEN "panicked" ELSE "failed"
       /\ stdout' = out
       /\ UNCHANGED <<ops, exprs, stack, calc_result>>
  ELSE CalcReturn(Err(e), out)

\* self.payloads.lock().await
S_LockPayloads ==
  /\ spc = "send"
  /\ payloadsLock = "free"
  /\ payloadsLock' = "send"
  /\ spc' = "push"
  /\ UNCHANGED <<parserVars, lookupVars, mainVars, payloads, context,
                 contextLock, channel, targetVars, recvVars, ip, ops, regs,
                 exprs, stack, input, mode, nlines, cmd_id, calc_result,
                 stdout, last, terminated>>

\* S_Push with the guard kept in a variable that lives to the end of
\* send_and_receive
S_Push_keeps_guard ==
  /\ spc = "push"
  /\ payloads' = Append(payloads, Resolve(CurOp, regs))
  /\ payloadsLock' = payloadsLock
  /\ spc' = "write"
  /\ UNCHANGED <<parserVars, lookupVars, mainVars, context, contextLock,
                 channel, targetVars, recvVars, ip, ops, regs, exprs, stack,
                 input, mode, nlines, cmd_id, calc_result, stdout, last,
                 terminated>>

\* .push(payload_clone.clone()); the guard is dropped with the statement
S_Push ==
  /\ spc = "push"
  /\ payloads' = Append(payloads, Resolve(CurOp, regs))
  /\ payloadsLock' = "free"
  /\ spc' = "write"
  /\ UNCHANGED <<parserVars, lookupVars, mainVars, context, contextLock,
                 channel, targetVars, recvVars, ip, ops, regs, exprs, stack,
                 input, mode, nlines, cmd_id, calc_result, stdout, last,
                 terminated>>

\* S_Write with the counter incremented before the packet is written
S_Write_incremented_first ==
  /\ spc = "write"
  /\ \/ /\ towire' = Append(towire, [id |-> cmd_id + 1,
                                     cmd |-> payloads[Len(payloads)]])
        /\ cmd_id' = cmd_id + 1
        /\ last' = [NoCall EXCEPT !.cmd = cmd_id + 1]
        /\ spc' = "wait"
     \/ /\ tstate = "closed"
        /\ spc' = "panicked"
        /\ UNCHANGED <<towire, cmd_id, last>>
  /\ UNCHANGED <<parserVars, lookupVars, mainVars, sharedVars, wire, tstate,
                 watch, heap, absent, noise, recvVars, ip, ops, regs, exprs,
                 stack, input, mode, nlines, calc_result, stdout,
                 terminated>>

\* S_Write without self.cmd_id += 1
S_Write_same_id ==
  /\ spc = "write"
  /\ \/ /\ towire' = Append(towire, [id |-> cmd_id,
                                     cmd |-> payloads[Len(payloads)]])
        /\ last' = [NoCall EXCEPT !.cmd = cmd_id]
        /\ spc' = "wait"
        /\ UNCHANGED cmd_id
     \/ /\ tstate = "closed"
        /\ spc' = "panicked"
        /\ UNCHANGED <<towire, cmd_id, last>>
  /\ UNCHANGED <<parserVars, lookupVars, mainVars, sharedVars, wire, tstate,
                 watch, heap, absent, noise, recvVars, ip, ops, regs, exprs,
                 stack, input, mode, nlines, calc_result, stdout,
                 terminated>>

\* send_packet(..).await.unwrap(); self.cmd_id += 1.  A write on a closed
\* connection fails or is buffered.
S_Write ==
  /\ spc = "write"
  /\ \/ /\ towire' = Append(towire, [id |-> cmd_id,
                                     cmd |-> payloads[Len(payloads)]])
        /\ cmd_id' = cmd_id + 1
        /\ last' = [NoCall EXCEPT !.cmd = cmd_id]
        /\ spc' = "wait"
     \/ /\ tstate = "closed"
        /\ spc' = "panicked"
        /\ UNCHANGED <<towire, cmd_id, last>>
  /\ UNCHANGED <<parserVars, lookupVars, mainVars, sharedVars, wire, tstate,
                 watch, heap, absent, noise, recvVars, ip, ops, regs, exprs,
                 stack, input, mode, nlines, calc_result, stdout,
                 terminated>>

\* the loop of send_and_receive takes a packet from the queue; a reply goes
\* to the code that called send_and_receive (Handle)
S_Recv ==
  /\ spc = "wait"
  /\ channel # <<>>
  /\ channel' = Tail(channel)
  /\ LET packet == Head(channel)
         arm == RecvMatch(packet)
         out == Append(stdout, <<"!">>)
         o == Handle(CurOp, packet, regs)
         bind(val) == IF CurOp.dst \in Registers \ {"null"}
                      THEN [regs EXCEPT ![CurOp.dst] = val] ELSE regs
     IN CASE arm = "discard" ->
               /\ last' = [last EXCEPT !.events = @ + 1]
               /\ UNCHANGED <<spc, ip, ops, regs, exprs, stack, calc_result,
                              stdout, terminated>>
          [] arm = "death" ->
               /\ last' = [last EXCEPT !.ret = "err"]
               /\ terminated' = TRUE
               /\ SendErr("VM DEATH", stdout)
               /\ UNCHANGED <<ip, regs>>
          [] arm = "reply" ->
               /\ last' = [last EXCEPT !.ret = "ok", !.type = packet.type,
                                       !.id = packet.id, !.kind = packet.kind]
               /\ terminated' = terminated
               /\ CASE o.res = "panic" ->
                         /\ spc' = "panicked"
                         /\ stdout' = out
                         /\ UNCHANGED <<ip, ops, regs, exprs, stack,
                                        calc_result>>
                    [] o.res = "err" ->
                         /\ SendErr(o.msg, out)
                         /\ UNCHANGED <<ip, regs>>
                    [] o.res = "exc" ->
                         /\ regs' = [regs EXCEPT !["exception"] = o.val]
                         /\ ops' = get_exception_string
                         /\ spc' = "send"
                         /\ stdout' = out
                         /\ UNCHANGED <<ip, exprs, stack, calc_result>>
                    [] o.res = "ok" /\ CurOp.h = "id_sizes" ->
                         /\ spc' = "setctx"
                         /\ stdout' = out
                         /\ UNCHANGED <<ip, ops, regs, exprs, stack,
                                        calc_result>>
                    [] o.res = "ok" /\ CurOp.h = "result_string" ->
                         /\ CalcReturn(Ok(packet.data), out)
                         /\ UNCHANGED <<ip, regs>>
                    [] OTHER ->
                         /\ regs' = bind(o.val)
                         /\ stack' = IF CurOp.dst = "push"
                                     THEN Append(stack, o.val) ELSE stack
                         /\ OpDone
                         /\ stdout' = out
                         /\ UNCHANGED <<exprs, calc_result>>
  /\ UNCHANGED <<parserVars, lookupVars, mainVars, payloads, payloadsLock,
                 context, contextLock, targetVars, recvVars, input, mode,
                 nlines, cmd_id>>

\* S_RecvClosed with the None arm going round the loop again
S_RecvClosed_retries ==
  /\ spc = "wait"
  /\ channel = <<>>
  /\ RecvEnded
  /\ UNCHANGED vars

\* self.channel_rx.recv() returns None: the sender is gone and the queue
\* is empty
S_RecvClosed ==
  /\ spc = "wait"
  /\ channel = <<>>
  /\ RecvEnded
  /\ last' = [last EXCEPT !.ret = "err"]
  /\ SendErr("Channel closed", stdout)
  /\ UNCHANGED <<parserVars, lookupVars, mainVars, sharedVars, targetVars,
                 recvVars, ip, regs, input, mode, nlines, cmd_id,
                 terminated>>

\* get_id_sizes: self.context.lock().await
S_LockContext ==
  /\ spc = "setctx"
  /\ contextLock = "free"
  /\ contextLock' = "send"
  /\ spc' = "holdctx"
  /\ UNCHANGED <<parserVars, lookupVars, mainVars, payloads, payloadsLock,
                 context, channel, targetVars, recvVars, ip, ops, regs, exprs,
                 stack, input, mode, nlines, cmd_id, calc_result, stdout,
                 last, terminated>>

\* get_id_sizes: .set_from_id_sizes_response(&id_sizes); the guard is
\* dropped with the statement
S_SetContext ==
  /\ spc = "holdctx"
  /\ context' = "Some"
  /\ contextLock' = "free"
  /\ OpDone
  /\ UNCHANGED <<parserVars, lookupVars, mainVars, payloads, payloadsLock,
                 channel, targetVars, recvVars, regs, exprs, stack, input,
                 mode, nlines, cmd_id, calc_result, stdout, last,
                 terminated>>

\* the loop that waits for the class-prepare event:
\* h.channel_rx.recv().await.unwrap()
S_Barrier ==
  /\ spc = "barrier"
  /\ \/ /\ channel # <<>>
        /\ channel' = Tail(channel)
        /\ IF AnyEvent(Head(channel), "CLASS_PREPARE")
           THEN OpDone
           ELSE UNCHANGED <<spc, ip, ops>>
     \/ /\ channel = <<>>
        /\ RecvEnded
        /\ spc' = "panicked"
        /\ UNCHANGED <<channel, ip, ops>>
  /\ UNCHANGED <<parserVars, lookupVars, mainVars, payloads, payloadsLock,
                 context, contextLock, targetVars, recvVars, regs, exprs,
                 stack, input, mode, nlines, cmd_id, calc_result, stdout,
                 last, terminated>>

\* if let Some(ref expr) = expression .. else if atty::is(Stdin) .. else:
\* the arguments and the terminal are looked at here for the first time
S_Mode ==
  /\ spc = "mode"
  /\ \/ /\ mode' = "single"
        /\ input' \in Expressions
        /\ spc' = "calc"
     \/ /\ mode' \in {"interactive", "piped"}
        /\ input' = input
        /\ spc' = "readline"
  /\ UNCHANGED <<parserVars, lookupVars, mainVars, sharedVars, targetVars,
                 recvVars, ip, ops, regs, exprs, stack, nlines, cmd_id,
                 calc_result, stdout, last, terminated>>

\* stdin.read_line(&mut input) appends the line to input; piped: to the
\* fresh expr.  Interactive: if input.trim() == "exit" { break }.  The
\* result of the previous match is gone.
S_ReadLine ==
  /\ spc = "readline"
  /\ nlines < MaxLines
  /\ nlines' = nlines + 1
  /\ \E line \in Lines :
       /\ input' = input \o line \o <<"\n">>
       /\ spc' = IF mode = "interactive"
                    /\ trim(input \o line \o <<"\n">>) = <<"e", "x", "i", "t">>
                 THEN "done" ELSE "calc"
  /\ calc_result' = NoResult
  /\ UNCHANGED <<parserVars, lookupVars, mainVars, sharedVars, targetVars,
                 recvVars, ip, ops, regs, exprs, stack, mode, cmd_id, stdout,
                 last, terminated>>

\* S_Calc evaluating what parse_expression accepted, whatever follows it
S_Calc_unchecked ==
  /\ spc = "calc"
  /\ LET r == parse_input_lax(input) IN
       IF r.ok
       THEN /\ exprs' = r.exprs
            /\ stack' = <<>>
            /\ spc' = "instr"
            /\ UNCHANGED <<ops, calc_result, stdout>>
       ELSE CalcReturn(Err(r.err), stdout)
  /\ UNCHANGED <<parserVars, lookupVars, mainVars, sharedVars, targetVars,
                 recvVars, ip, regs, input, mode, nlines, cmd_id, last,
                 terminated>>

\* calc_expression: match parse::parse_input(expr)
S_Calc ==
  /\ spc = "calc"
  /\ LET r == parse_input(input) IN
       IF r.ok
       THEN /\ exprs' = r.exprs
            /\ stack' = <<>>
            /\ spc' = "instr"
            /\ UNCHANGED <<ops, calc_result, stdout>>
       ELSE CalcReturn(Err(r.err), stdout)
  /\ UNCHANGED <<parserVars, lookupVars, mainVars, sharedVars, targetVars,
                 recvVars, ip, regs, input, mode, nlines, cmd_id, last,
                 terminated>>

\* for expr in exprs { match expr .. }: the operands are popped and the
\* first helper of the instruction is entered; after the loop the result
\* is popped
S_Instr ==
  /\ spc = "instr"
  /\ IF exprs # <<>> /\ Head(exprs).tag = "Number"
     THEN /\ regs' = [regs EXCEPT !["n"] = Head(exprs).n]
          /\ ops' = NumberOps
          /\ exprs' = Tail(exprs)
          /\ spc' = "send"
          /\ stack' = stack
     ELSE IF exprs # <<>>
     THEN IF Len(stack) < 2
          THEN /\ spc' = "panicked"
               /\ UNCHANGED <<regs, ops, exprs, stack>>
          ELSE /\ regs' = [regs EXCEPT !["b"] = stack[Len(stack)],
                                       !["a"] = stack[Len(stack) - 1]]
               /\ stack' = SubSeq(stack, 1, Len(stack) - 2)
               /\ ops' = BinaryOps(Head(exprs).op)
               /\ exprs' = Tail(exprs)
               /\ spc' = "send"
     ELSE IF stack = <<>>
          THEN /\ spc' = "panicked"
               /\ UNCHANGED <<regs, ops, exprs, stack>>
          ELSE /\ regs' = [regs EXCEPT !["result_bigint"] = stack[Len(stack)]]
               /\ stack' = SubSeq(stack, 1, Len(stack) - 1)
               /\ ops' = ResultOps
               /\ exprs' = exprs
               /\ spc' = "send"
  /\ UNCHANGED <<parserVars, lookupVars, mainVars, sharedVars, targetVars,
                 recvVars, ip, input, mode, nlines, cmd_id, calc_result,
                 stdout, last, terminated>>

SendNext ==
  \/ S_LockPayloads
  \/ S_Push
  \/ S_Write
  \/ S_Recv
  \/ S_RecvClosed
  \/ S_LockContext
  \/ S_SetContext
  \/ S_Barrier
  \/ S_Mode
  \/ S_ReadLine
  \/ S_Calc
  \/ S_Instr

(***************************************************************************)
(* main: the handshake, then the two tasks, then try_join!                 *)
(***************************************************************************)
\* b"JDWP-Handshake"
Banner ==
  <<"J", "D", "W", "P", "-", "H", "a", "n", "d", "s", "h", "a", "k", "e">>

\* what the peer may answer: the banner, the banner with its last or its
\* first byte changed, another case, zeros, and a stream that ends after 13
\* bytes
HandshakeReplies ==
  { Banner,
    [Banner EXCEPT ![14] = "f"],
    [Banner EXCEPT ![1] = "X"],
    [Banner EXCEPT ![6] = "h"],
    [i \in 1..14 |-> "0"],
    SubSeq(Banner, 1, 13) }

\* HandshakeOk looking at the protocol name only
HandshakeOk_prefix(buf) == SubSeq(buf, 1, 4) = SubSeq(Banner, 1, 4)

\* stream.read_exact(&mut buf).await? fills all 14 bytes, and
\* &buf == b"JDWP-Handshake"
HandshakeOk(buf) == Len(buf) = 14 /\ buf = Banner

\* the banner is written, 14 bytes are read back and compared; on success
\* the stream is split and both tasks are spawned
M_Handshake ==
  /\ mpc = "handshake"
  /\ \E reply \in HandshakeReplies :
       /\ hs' = reply
       /\ mpc' = IF HandshakeOk(reply) THEN "running" ELSE "failed"
  /\ UNCHANGED <<parserVars, lookupVars, sharedVars, targetVars, recvVars,
                 sendVars>>

\* tokio::try_join!(recv_task, send_task)?: a task that panicked makes main
\* return the JoinError at once; otherwise main returns when both tasks
\* have returned.  When main returns the process ends.
M_Join ==
  /\ mpc = "running"
  /\ \/ /\ rpc = "panicked" \/ spc = "panicked"
        /\ mpc' = "failed"
     \/ /\ rpc = "done"
        /\ spc \in {"done", "failed"}
        /\ mpc' = "done"
  /\ UNCHANGED <<parserVars, lookupVars, hs, sharedVars, targetVars,
                 recvVars, sendVars>>

Recv == mpc = "running" /\ RecvNext

Target == mpc = "running" /\ TargetNext

Send == mpc = "running" /\ SendNext

Next == M_Handshake \/ M_Join \/ Recv \/ Target \/ Send

Spec == Init /\ [][Next]_vars

(***************************************************************************)
(* The parser's inputs: every string over Alphabet up to MaxLen, and the   *)
(* examples of the documentation and of the unit test.                     *)
(***************************************************************************)
Alphabet == {"1", "2", "+", "-", "*", "/", "(", ")", " "}

AllStrings(n) == UNION {[1..k -> Alphabet] : k \in 0..n}

\* "3 + 5 * (2 - 8)", the input of tests::test_parse_expression
TestInput ==
  <<"3", " ", "+", " ", "5", " ", "*", " ", "(", "2", " ", "-", " ", "8", ")">>

TestExpected ==
  <<Number(3), Number(5), Number(2), Number(8), Binary("Subtract"),
    Binary("Multiply"), Binary("Add")>>

ParseSamples ==
  { TestInput,
    <<"2", "*", "3", "+", "4">>,
    <<"(", "1", "+", "2", ")", "*", "2">>,
    <<"1", "2", " ", "/", "(", "2", "-", "2", ")">>,
    <<" ", "(", "(", "1", "2", ")", ")", "\n">>,
    <<"1", "\n", "+", "1", "\n">>,
    <<"(", "1", "+", "2", " ", "2">>,
    <<"(", "1", "+", "2", ")", " ", "(">> }

ParseInputs == AllStrings(MaxLen) \cup ParseSamples

InitParse ==
  /\ p_input \in ParseInputs
  /\ p_result = PErr("")
  /\ p_pc = "init"
  /\ InitSession
  /\ absent = {}
  /\ mpc = "handshake"
  /\ hs = [i \in 1..14 |-> "0"]
  /\ InitIdle

ParseStep ==
  /\ p_pc = "init"
  /\ p_result' = parse_input(p_input)
  /\ p_pc' = "done"
  /\ UNCHANGED <<p_input, lookupVars, mainVars, sharedVars, targetVars,
                 recvVars, sendVars>>

NextParse == ParseStep

SpecParse == InitParse /\ [][NextParse]_vars

(***************************************************************************)
(* parse_input on literals around the ends of the i64 range: 2^31, 2^63 -  *)
(* 1, 2^63, 2^64, 2^64 + 1, twenty nines, with leading zeros, alone and    *)
(* inside expressions.                                                     *)
(***************************************************************************)
Chars(str) ==
  CASE str = "2^31" -> <<"2", "1", "4", "7", "4", "8", "3", "6", "4", "8">>
    [] str = "2^63-1" -> I64MaxNumeral
    [] str = "2^63" -> [I64MaxNumeral EXCEPT ![19] = "8"]
    [] str = "2^63+3" -> <<"9", "2", "2", "3", "3", "7", "2", "0", "3", "6",
                           "8", "5", "4", "7", "7", "5", "8", "1", "1">>
    [] str = "2^64" -> <<"1", "8", "4", "4", "6", "7", "4", "4", "0", "7",
                         "3", "7", "0", "9", "5", "5", "1", "6", "1", "6">>
    [] str = "2^64+1" -> <<"1", "8", "4", "4", "6", "7", "4", "4", "0", "7",
                           "3", "7", "0", "9", "5", "5", "1", "6", "1", "7">>
    [] str = "nines" -> [i \in 1..20 |-> "9"]
    [] str = "10^18" -> <<"1">> \o [i \in 1..18 |-> "0"]
    [] str = "7" -> <<"7">>
    [] str = "0" -> <<"0">>

LiteralNumerals ==
  { pad \o Chars(str) :
      pad \in {<<>>, <<"0">>, <<"0", "0", "0">>},
      str \in {"2^31", "2^63-1", "2^63", "2^63+3", "2^64", "2^64+1",
               "nines", "10^18", "7", "0"} }

LiteralInputs ==
  { pre \o num \o post :
      pre \in {<<>>, <<"(">>, <<"1", "+">>, <<"3", " ", "*", " ">>},
      num \in LiteralNumerals,
      post \in {<<>>, <<")">>, <<"-", "2">>, <<"\n">>} }

InitLiteral ==
  /\ p_input \in LiteralInputs
  /\ p_result = PErr("")
  /\ p_pc = "init"
  /\ InitSession
  /\ absent = {}
  /\ mpc = "handshake"
  /\ hs = [i \in 1..14 |-> "0"]
  /\ InitIdle

SpecLiteral == InitLiteral /\ [][NextParse]_vars

(***************************************************************************)
(* find_method and find_field on their own: every list of up to            *)
(* MaxMembers declared members over two names and two signatures, every    *)
(* (name, signature) asked for.  The id of a member is 10 + its position.  *)
(***************************************************************************)
MemberNames == {"valueOf", "parseLong"}

MemberSignatures == {SigLongValueOf, "(Ljava/lang/String;)J"}

MemberLists ==
  UNION { [1..k -> [name : MemberNames, signature : MemberSignatures]] :
            k \in 0..MaxMembers }

WithIds(list) ==
  [i \in 1..Len(list) |->
     [name |-> list[i].name, signature |-> list[i].signature, id |-> 10 + i]]

InitLookup ==
  /\ lk_kind \in {"method", "field"}
  /\ lk_members \in {WithIds(l) : l \in MemberLists}
  /\ lk_name \in MemberNames
  /\ lk_signature \in MemberSignatures
  /\ lk_result = [res |-> "none", val |-> 0, msg |-> ""]
  /\ lk_pc = "init"
  /\ InitSession
  /\ absent = {}
  /\ mpc = "handshake"
  /\ hs = [i \in 1..14 |-> "0"]
  /\ p_input = <<>>
  /\ p_result = PErr("")
  /\ p_pc = "off"

\* the helper is called and the reply to its command holds lk_members
LookupStep ==
  /\ lk_pc = "init"
  /\ LET op == IF lk_kind = "method"
               THEN find_method("null", lk_name, lk_signature, "")
               ELSE find_field("null", lk_name, lk_signature, "")
         reply == [Reply(0, op.kind) EXCEPT !.members = lk_members]
     IN lk_result' = Handle(op, reply, [r \in Registers |-> 0])
  /\ lk_pc' = "done"
  /\ UNCHANGED <<parserVars, lk_kind, lk_members, lk_name, lk_signature,
                 mainVars, sharedVars, targetVars, recvVars, sendVars>>

NextLookup == LookupStep

SpecLookup == InitLookup /\ [][NextLookup]_vars

(***************************************************************************)
(* Claims about the parser.                                                *)
(***************************************************************************)
\* C7: for every valid arithmetic input, parse_input returns the postfix
\* program of the input (numbers in reading order, each Binary(op) after both
\* of its operands, lowest precedence and leftmost operators last), and
\* running that program on a stack of integers gives the value of the
\* infix expression; the unit test's input yields the unit test's program.
C7_ParserCorrect ==
  p_pc = "done" =>
    /\ RefParse(p_input).valid =>
         /\ p_result.ok
         /\ p_result.exprs = RefParse(p_input).post
         /\ RefValue(p_input).def =>
              EvalPostfix(p_result.exprs) = RefValue(p_input)
    /\ p_input = TestInput => p_result.exprs = TestExpected

C7_Witness ==
  /\ p_pc = "done"
  /\ p_input = TestInput
  /\ p_result.ok
  /\ EvalPostfix(p_result.exprs) = Defined(-27)

\* the inputs that split into a prefix and a remainder
Prefix(s, k) == SubSeq(s, 1, k)

Suffix(s, k) == SubSeq(s, k + 1, Len(s))

\* the number of parentheses of p still open at its end
OpenParens(p) == DepthBefore(p, Len(p) + 1)

CloseParens(d) == [i \in 1..d |-> ")"]

\* the remainder r would extend a number that ends the prefix p
ExtendsNumber(p, r) ==
  p # <<>> /\ r # <<>> /\ IsAsciiDigit(p[Len(p)]) /\ IsAsciiDigit(r[1])

FirstChar(r) == Head(trim_start(r))

\* C8: parse_input succeeds only if the whole input is one expression; an
\* input made of a complete expression and a remainder that holds a
\* non-whitespace character and does not continue the expression (it starts
\* with neither a binary operator nor a further digit of the last number)
\* fails with TrailingInput and returns no instructions.
C8_TotalConsumption ==
  p_pc = "done" =>
    /\ p_result.ok => RefParse(p_input).valid
    /\ \A k \in 1..Len(p_input) :
         LET e == Prefix(p_input, k)
             r == Suffix(p_input, k)
         IN (/\ RefParse(e).valid
             /\ trim(r) # <<>>
             /\ FirstChar(r) \notin {"+", "-", "*", "/"}
             /\ ~ExtendsNumber(e, r))
            => p_result = PErr("TrailingInput")

C8_Witness ==
  /\ p_pc = "done"
  /\ p_input = <<"1", " ", "2">>
  /\ p_result = PErr("TrailingInput")

\* the prefix p ends where the grammar wants a primary: p followed by a
\* primary and the parentheses p left open is an expression
ExpectsPrimary(p) ==
  /\ OpenParens(p) >= 0
  /\ RefParse(p \o <<"(", "1", ")">> \o CloseParens(OpenParens(p))).valid

\* the prefix p ends after a complete expression inside a parenthesis
InsideParens(p) ==
  /\ OpenParens(p) >= 1
  /\ RefParse(p \o CloseParens(OpenParens(p))).valid

\* C9: where a primary is expected and the next non-whitespace character is
\* neither a digit nor '(' (the end of the input included), parse_input
\* fails with ExpectedNumber; where an expression inside a parenthesis is
\* complete and the next non-whitespace character is not ')' (and does not
\* continue the expression), it fails with ExpectedCloseParen.
C9_MissingElement ==
  p_pc = "done" =>
    \A k \in 0..Len(p_input) :
      LET p == Prefix(p_input, k)
          r == Suffix(p_input, k)
      IN /\ (/\ ExpectsPrimary(p)
             /\ \/ trim(r) = <<>>
                \/ ~IsAsciiDigit(FirstChar(r)) /\ FirstChar(r) # "(")
            => p_result = PErr("ExpectedNumber")
         /\ (/\ InsideParens(p)
             /\ \/ trim(r) = <<>>
                \/ FirstChar(r) \notin {")", "+", "-", "*", "/"}
             /\ ~ExtendsNumber(p, r))
            => p_result = PErr("ExpectedCloseParen")

C9_Witness ==
  /\ p_pc = "done"
  /\ p_input = <<"(", "1", "+", "2", " ", "2">>
  /\ InsideParens(Prefix(p_input, 4))
  /\ p_result = PErr("ExpectedCloseParen")

(***************************************************************************)
(* The session up to the command that follows the barrier, with the        *)
(* scheduling the runtime gives: a task that can run does run, and the     *)
(* target answers the commands it is sent.  Nothing obliges the target to  *)
(* emit an event, to die or to close the connection.                       *)
(***************************************************************************)
BarrierEnd == CHOOSE i \in 1..Len(SetupOps) : SetupOps[i].kind = "AllThreads"

SendBarrier ==
  /\ mpc = "running"
  /\ ip <= BarrierEnd
  /\ \/ S_LockPayloads
     \/ S_Push
     \/ S_Write
     \/ S_Recv
     \/ S_RecvClosed
     \/ S_LockContext
     \/ S_SetContext
     \/ S_Barrier

NextBarrier == M_Handshake \/ M_Join \/ Recv \/ Target \/ SendBarrier

SpecBarrier ==
  /\ Init
  /\ [][NextBarrier]_vars
  /\ WF_vars(Recv)
  /\ WF_vars(SendBarrier)
  /\ WF_vars(mpc = "running" /\ T_Reply)

\* The setup under the scheduling of the runtime: a task that is ready is
\* polled, and so is main, which awaits try_join!, once a join handle is
\* ready.  Nothing is assumed of the target.
SpecJoin ==
  /\ Init
  /\ [][NextBarrier]_vars
  /\ WF_vars(Recv)
  /\ WF_vars(SendBarrier)
  /\ WF_vars(M_Join)

(***************************************************************************)
(* Claims about the session.                                               *)
(***************************************************************************)
\* C1: whenever send_and_receive returns Ok(packet), the packet is a reply
\* (never an event batch), it carries the id of the command this call sent
\* and it is the reply type of that command, however many event batches
\* without a VM death were taken from the queue in between.
C1_Correlation ==
  last.ret = "ok" =>
    /\ last.type = "reply"
    /\ last.id = last.cmd
    /\ last.kind = payloads[last.cmd + 1].kind

\* a later command of the sequence got its reply after an event batch was
\* discarded during its wait
C1_Witness ==
  /\ last.ret = "ok"
  /\ last.events >= 1
  /\ last.cmd >= 1
  /\ last.id = last.cmd

\* C2: once send_and_receive has returned Err("VM DEATH") no further
\* command is written (the command id counter, incremented by every
\* write, stays as it is).
C2_NoCommandAfterTermination == [][terminated => cmd_id' = cmd_id]_vars

\* C3: the command written with id 0 is the IDSizes query and it is the
\* first entry of the history; any other command is written with the
\* Protocol Context set; and a packet that was read before the IDSizes
\* reply and failed to decode never brings the receive task to its panic.
C3_Bootstrap ==
  /\ (spc = "write" /\ cmd_id = 0) =>
       Len(payloads) = 1 /\ payloads[1].kind = "IDSizes"
  /\ payloads # <<>> => payloads[1].kind = "IDSizes"
  /\ ((spc = "write" /\ cmd_id >= 1) \/ cmd_id >= 2) => context = "Some"
  /\ (rpc \in {"diagnose", "panicked"} /\ ~rdecoded) => rboot = "after"

\* a packet read before the IDSizes reply was discarded, and the session
\* went on to set the context and to write its next commands
C3_Witness ==
  /\ "before" \in dropped
  /\ context = "Some"
  /\ cmd_id >= 2
  /\ ~RecvEnded
  /\ ~SendEnded

Healthy == tstate = "running" /\ ~RecvEnded /\ mpc = "running"

\* C4: once the target has emitted the class-prepare event for the armed
\* watch, the send task eventually issues the AllThreads command (unless
\* the target dies, the connection ends or the receive task stops).
C4_BarrierLiveness ==
  (watch = "fired" /\ Healthy) ~>
    (\/ \E i \in 1..Len(payloads) : payloads[i].kind = "AllThreads"
     \/ ~Healthy)

\* C5: when the send side takes an event batch with a VM death from the
\* queue, the wait it is in (the reply wait or the barrier's) ends.
C5_TerminationEndsWait ==
  [][(/\ spc \in {"wait", "barrier"}
      /\ channel # <<>>
      /\ AnyEvent(Head(channel), "VM_DEATH")
      /\ channel' = Tail(channel))
     => spc' \notin {"wait", "barrier"}]_vars

\* C6: after a reply that carried an exception, with the target running
\* and the receive task alive, the send task has not panicked: the
\* exception ends in an Err for the caller.
C6_RemoteExceptionRecoverable ==
  (regs["exception"] # 0 /\ Healthy) => spc # "panicked"

\* the command a step of an instruction is expected to write
Step(kind, n, m) == [kind |-> kind, n |-> n, m |-> m]

MethodName(op) ==
  CASE op = "Add" -> "add"
    [] op = "Subtract" -> "subtract"
    [] op = "Multiply" -> "multiply"
    [] op = "Divide" -> "divide"

ArraySteps ==
  << Step("ClassesBySignature", 0, ""), Step("NewInstance", 0, ""),
     Step("SetValues", 0, "") >>

\* the commands of a postfix program: per Number the Long, the array and
\* valueOf; per Binary the array and the operator's method; then toString
\* and the string's value
RECURSIVE ExpectedSteps(_)
ExpectedSteps(post) ==
  IF post = <<>>
  THEN << Step("ObjectInvoke", 0, "toString"), Step("StringValue", 0, "") >>
  ELSE (IF Head(post).tag = "Number"
        THEN << Step("ClassInvoke", Head(post).n, "") >> \o ArraySteps
               \o << Step("ObjectInvoke", 0, "valueOf") >>
        ELSE ArraySteps
               \o << Step("ObjectInvoke", 0, MethodName(Head(post).op)) >>)
       \o ExpectedSteps(Tail(post))

\* what a written command is, in the same terms: for an invocation through
\* Method.invoke, the name of the method the Method instance stands for
Written(c) ==
  Step(c.kind,
       IF c.kind = "ClassInvoke" THEN c.args[1] ELSE 0,
       IF c.kind = "ObjectInvoke" THEN HeapAt(heap, c.object).s ELSE "")

SetupCommands == Len(SetupOps) - 1

\* C10: when calc_expression returns Ok(s), the text is a valid
\* expression, s is the decimal string of its value under standard
\* precedence, and (first evaluation of the session) the commands written
\* for it are those of its instructions in order; for a valid expression
\* with a value the only Err is the loss of the target.
C10_EndToEnd ==
  /\ calc_result.res = "ok" =>
       /\ RefParse(input).valid
       /\ RefValue(input).def
       /\ calc_result.data = ToDecimal(RefValue(input).v)
       /\ nlines <= 1 =>
            [i \in 1..(Len(payloads) - SetupCommands) |->
               Written(payloads[SetupCommands + i])]
              = ExpectedSteps(RefParse(input).post)
  /\ (calc_result.res = "err" /\ RefParse(input).valid /\ RefValue(input).def)
       => calc_result.err \in {"VM DEATH", "Channel closed"}

\* evaluate("2*3+4") has returned "10"
C10_Witness ==
  /\ input = <<"2", "*", "3", "+", "4">>
  /\ calc_result = Ok(<<"1", "0">>)

\* the results printed on stdout, without the trace lines of send_and_receive
Printed == SelectSeq(stdout, LAMBDA l : l # <<"!">>)

\* C11: when the same line has been entered twice in a session and the
\* first evaluation printed a result, the second evaluation returns Ok with
\* the same string.
C11_Idempotence ==
  \A line \in Lines :
    (/\ mode = "interactive"
     /\ nlines = 2
     /\ input = line \o <<"\n">> \o line \o <<"\n">>
     /\ calc_result.res # "none"
     /\ Printed # <<>>
     /\ Healthy)
    => (calc_result.res = "ok" /\ calc_result.data = Printed[1])

\* the arithmetic lines a user may enter: each is a valid expression with
\* a value when taken on its own
GoodLines == {l \in Lines : RefParse(l).valid /\ RefValue(l).def}

\* C12: in the interactive loop, when a line has failed (parse error or
\* remote exception) and a valid line is entered next, the evaluation that
\* follows returns the value of that line.
C12_LoopContinues ==
  \A bad \in Lines \ GoodLines, good \in GoodLines :
    (/\ mode = "interactive"
     /\ nlines = 2
     /\ input = bad \o <<"\n">> \o good \o <<"\n">>
     /\ calc_result.res # "none"
     /\ Healthy)
    => calc_result = Ok(ToDecimal(RefValue(good).v))

\* the send task has panicked in the code that reads the reply to the
\* command of CurOp (and not in the write of a command)
PanickedOnReply ==
  /\ spc = "panicked"
  /\ ops # <<>> \/ ip <= Len(SetupOps)
  /\ last.ret = "ok"
  /\ last.cmd = cmd_id - 1
  /\ Len(payloads) = cmd_id
  /\ last.kind = CurOp.kind

\* C13: find_class does not crash: the send task never panics on the reply
\* to a classes-by-signature command, whatever the result set.
C13_ClassNotFound == ~(PanickedOnReply /\ CurOp.h = "find_class")

\* member i of the reply has the name and the signature asked for
Matches(i) ==
  /\ lk_members[i].name = lk_name
  /\ lk_members[i].signature = lk_signature

\* C14: find_method / find_field return Ok(id) only for the first member
\* of the reply whose name and signature both equal the ones asked for,
\* and Err(MethodNotFound / FieldNotFound) exactly when no member matches
\* both.
C14_ExactMatch ==
  lk_pc = "done" =>
    /\ lk_result.res \in {"ok", "err"}
    /\ lk_result.res = "ok" =>
         \E i \in 1..Len(lk_members) :
           /\ Matches(i)
           /\ lk_result.val = lk_members[i].id
           /\ \A j \in 1..(i - 1) : ~Matches(j)
    /\ lk_result.res = "err" =>
         /\ \A i \in 1..Len(lk_members) : ~Matches(i)
         /\ lk_result.msg = IF lk_kind = "method" THEN "MethodNotFound"
                            ELSE "FieldNotFound"

\* an overload with the name but another signature comes first, then two
\* members that match: the first of these two is returned
C14_Witness ==
  /\ lk_pc = "done"
  /\ Len(lk_members) = 3
  /\ lk_members[1].name = lk_name
  /\ lk_members[1].signature # lk_signature
  /\ Matches(2)
  /\ Matches(3)
  /\ lk_result.res = "ok"
  /\ lk_result.val = lk_members[2].id

\* C15: command ids are unique and strictly increasing.  The history
\* payloads receives one entry per issued command, just before the write:
\* every step that writes a command writes it with the number of commands
\* written before (Len(payloads) - 1) as its id, after every id still in
\* flight, and moves the counter to the next number; no other step changes
\* the counter.
C15_CommandIds ==
  [][/\ towire' # towire /\ Len(towire') > Len(towire) =>
          /\ towire' = Append(towire, towire'[Len(towire')])
          /\ towire'[Len(towire')].id = Len(payloads) - 1
          /\ towire'[Len(towire')].cmd = payloads[Len(payloads)]
          /\ \A i \in 1..Len(towire) :
               towire[i].id < towire'[Len(towire')].id
          /\ cmd_id = Len(payloads) - 1
          /\ cmd_id' = cmd_id + 1
     /\ cmd_id' # cmd_id => Len(towire') > Len(towire)
     /\ cmd_id' >= cmd_id]_vars

\* a command written after a reply that carried an exception, beyond the
\* setup: it carries the number of commands written before it
C15_Witness ==
  /\ regs["exception"] # 0
  /\ cmd_id > SetupCommands + 1
  /\ towire # <<>>
  /\ towire[Len(towire)].id = cmd_id - 1
  /\ cmd_id = Len(payloads)
  /\ towire[Len(towire)].cmd = payloads[cmd_id]

\* neither task has taken a step and nothing was written
NothingStarted ==
  /\ rpc = "read"
  /\ spc = "send"
  /\ ip = 1
  /\ cmd_id = 0
  /\ payloads = <<>>
  /\ towire = <<>>
  /\ channel = <<>>
  /\ rbuf = NoPacket
  /\ payloadsLock = "free"
  /\ contextLock = "free"
  /\ context = "None"
  /\ stdout = <<>>

\* C16: handshake gating.  Unless the 14 bytes read back are the banner
\* byte for byte, main never spawns the two tasks and no command is
\* written; after a mismatch main has failed with nothing started.
C16_HandshakeGating ==
  /\ hs # Banner => mpc \in {"handshake", "failed"} /\ NothingStarted
  /\ mpc = "handshake" => NothingStarted
  /\ ~NothingStarted => hs = Banner

\* main has failed on a reply that differs from the banner in its last
\* byte only
C16_Witness ==
  /\ mpc = "failed"
  /\ hs = [Banner EXCEPT ![14] = "f"]
  /\ NothingStarted

\* C17: a packet whose decoding was attempted with the context not yet
\* populated (rctx = "None") and failed never takes the receive task to
\* the fatal branch: the task reaches the diagnostic and the panic only
\* with a failure of a decoding attempted with the context populated.
C17_UnsetContextDiscards ==
  (rpc \in {"diagnose", "panicked"} /\ ~rdecoded) => rctx = "Some"

\* the receive task is in its fatal branch for a packet that did not decode
DecodeFatal == rpc \in {"diagnose", "panicked"} /\ ~rdecoded

InWait == spc \in {"wait", "barrier"}

\* C18: a decode failure that reaches the fatal branch ends the session.
\* From then on the receive task never leaves that branch and puts nothing
\* on the queue (neither the packet nor a later one); a wait of the send
\* side that is pending then comes to an end, and main returns.
C18_DecodeFailureFatal ==
  /\ [][DecodeFatal =>
          /\ rpc' \in {"diagnose", "panicked"}
          /\ ~rdecoded'
          /\ rbuf' = rbuf
          /\ Len(channel') <= Len(channel)
          /\ wire # <<>> => wire' # <<>>]_vars
  /\ (DecodeFatal /\ InWait) ~> (~InWait \/ mpc = "failed")
  /\ DecodeFatal ~> (mpc = "failed")

\* the decoding failed with the context populated, a later packet is left
\* unread, the wait of the send side ended with "Channel closed" and main
\* has returned
C18_Witness ==
  /\ rpc = "panicked"
  /\ ~rdecoded
  /\ rctx = "Some"
  /\ wire # <<>>
  /\ channel = <<>>
  /\ last.ret = "err"
  /\ spc \in {"failed", "panicked"}
  /\ mpc = "failed"

\* task t holds the lock of the command history or of the context
Holds(t) == payloadsLock = t \/ contextLock = t

\* the receive task is suspended: in the socket read, in the send on the
\* queue, or in a lock() whose lock is taken
RecvSuspended ==
  \/ rpc \in {"read", "forward"}
  \/ rpc \in {"lockPayloads", "diagnose"} /\ payloadsLock # "free"
  \/ rpc \in {"lockContext", "check"} /\ contextLock # "free"

\* the send task is suspended: in the socket write, in the recv on the
\* queue, or in a lock() whose lock is taken
SendSuspended ==
  \/ spc \in {"write", "wait", "barrier"}
  \/ spc = "send" /\ payloadsLock # "free"
  \/ spc = "setctx" /\ contextLock # "free"

\* C19: a task that is suspended holds neither the lock of the command
\* history nor the lock of the context.
C19_NoLockAcrossSuspension ==
  /\ RecvSuspended => ~Holds("recv")
  /\ SendSuspended => ~Holds("send")

\* the receive task is in a lock() whose lock the send task holds
RecvBlockedBySend ==
  \/ rpc \in {"lockPayloads", "diagnose"} /\ payloadsLock = "send"
  \/ rpc \in {"lockContext", "check"} /\ contextLock = "send"

\* the send task is in a lock() whose lock the receive task holds
SendBlockedByRecv ==
  \/ spc = "send" /\ payloadsLock = "recv"
  \/ spc = "setctx" /\ contextLock = "recv"

\* C20: the two tasks never wait for each other's lock, and a task that
\* is at a lock() gets past it (unless main has returned, which ends both
\* tasks).
C20_DeadlockFreedom ==
  /\ [] ~(RecvBlockedBySend /\ SendBlockedByRecv)
  /\ \A p \in {"lockPayloads", "lockContext", "check", "diagnose"} :
       (rpc = p) ~> (rpc # p \/ mpc # "running")
  /\ \A p \in {"send", "setctx"} :
       (spc = p /\ ip <= BarrierEnd) ~> (spc # p \/ mpc # "running")

\* the receive task holds the lock of the command history and waits for
\* the lock of the context, which the send task holds
C20_Witness ==
  /\ rpc = "lockContext"
  /\ payloadsLock = "recv"
  /\ contextLock = "send"
  /\ spc = "holdctx"
  /\ mpc = "running"

\* the first thread a reply to AllThreads reports
FirstThread ==
  CHOOSE i \in 1..Len(heap) :
    /\ heap[i].t = "Thread"
    /\ \A j \in 1..(i - 1) : heap[j].t # "Thread"

IsInvoke(c) == c.kind \in {"ClassInvoke", "ObjectInvoke"}

\* a class-prepare event was written by the target and is no longer on its
\* way to the send task
ClassPrepareTaken ==
  /\ watch = "fired"
  /\ \A i \in 1..Len(wire) : ~AnyEvent(wire[i], "CLASS_PREPARE")
  /\ \A i \in 1..Len(channel) : ~AnyEvent(channel[i], "CLASS_PREPARE")
  /\ rpc \in {"lockPayloads", "lockContext", "check", "forward"} =>
       ~AnyEvent(rbuf, "CLASS_PREPARE")

\* C21: the history starts IDSizes, EventRequestSet (the class-prepare
\* watch), Resume, AllThreads; AllThreads and everything after it is issued
\* only after the barrier took a class-prepare event from the queue; an
\* invoke command comes after AllThreads and carries the first thread of
\* the AllThreads reply.
C21_BarrierOrdering ==
  /\ \A k \in 1..Len(payloads) :
       /\ k <= 4 => payloads[k].kind =
                      <<"IDSizes", "EventRequestSet", "Resume", "AllThreads">>[k]
       /\ k >= 4 => ip > 4 /\ ClassPrepareTaken
       /\ IsInvoke(payloads[k]) =>
            /\ k > 4
            /\ payloads[k].thread = FirstThread
            /\ payloads[k].thread = regs["current_thread"]
  /\ spc = "barrier" => Len(payloads) = 3 /\ ip = 4

\* the getMessage invocation on the exception of 1/0 was issued, after
\* invocations of the setup and of the evaluation
C21_Witness ==
  /\ regs["exception"] # 0
  /\ \E k \in 1..Len(payloads) :
       /\ payloads[k].kind = "ObjectInvoke"
       /\ payloads[k].object = regs["exception"]
       /\ payloads[k].thread = FirstThread
       /\ k > SetupCommands

\* C22: the context is empty until the first command is written; it
\* changes in one kind of step only, from empty to populated, taken by the
\* send task in get_id_sizes with the reply to IDSizes in hand and the
\* context lock held; no step of the receive task changes it.
C22_ContextSetOnce ==
  /\ [](cmd_id = 0 => context = "None")
  /\ [][context' # context =>
          /\ context = "None"
          /\ context' = "Some"
          /\ spc = "holdctx"
          /\ contextLock = "send"
          /\ ip = 1
          /\ last.kind = "IDSizes"
          /\ last.ret = "ok"
          /\ UNCHANGED recvVars]_vars

\* the context is populated, the receive task has decoded a later reply
\* with it, and the session is past the setup
C22_Witness ==
  /\ context = "Some"
  /\ rctx = "Some"
  /\ rdecoded
  /\ rbuf.type = "reply"
  /\ rbuf.kind # "IDSizes"
  /\ cmd_id > SetupCommands

\* C23: for every instruction sequence parse_input returns, the stack of
\* the evaluator holds two entries at every Binary and exactly one entry
\* after the last instruction.
C23_StackInvariant ==
  (p_pc = "done" /\ p_result.ok) => StackAfter(p_result.exprs, 0) = 1

\* the program of "3 + 5 * (2 - 8)": three operators are pending on a stack
\* of four entries
C23_Witness ==
  /\ p_pc = "done"
  /\ p_input = TestInput
  /\ p_result.ok
  /\ Len(p_result.exprs) = 7
  /\ StackAfter(SubSeq(p_result.exprs, 1, 4), 0) = 4
  /\ StackAfter(p_result.exprs, 0) = 1

BinaryInstances ==
  {"add_method_instance", "subtract_method_instance",
   "multiply_method_instance", "divide_method_instance"}

OpOfInstance(reg) ==
  CASE reg = "add_method_instance" -> "Add"
    [] reg = "subtract_method_instance" -> "Subtract"
    [] reg = "multiply_method_instance" -> "Multiply"
    [] reg = "divide_method_instance" -> "Divide"

\* C24: a Binary instruction pops the top of the stack as b and the next
\* entry as a; the invocation it ends with is Method.invoke of the
\* operator's method with a as the receiver and an array holding b alone,
\* and the one handle pushed for it has the value a op b.
C24_OperandOrder ==
  [][/\ (/\ spc = "instr"
         /\ exprs # <<>>
         /\ Head(exprs).tag = "Binary"
         /\ spc' # spc) =>
          /\ Len(stack) >= 2
          /\ regs'["b"] = stack[Len(stack)]
          /\ regs'["a"] = stack[Len(stack) - 1]
          /\ stack' = SubSeq(stack, 1, Len(stack) - 2)
     /\ (/\ spc = "wait"
         /\ CurOp.object \in BinaryInstances
         /\ Len(stack') > Len(stack)) =>
          LET c == payloads[Len(payloads)]
              x == stack'[Len(stack')]
              op == OpOfInstance(CurOp.object)
          IN /\ stack' = Append(stack, x)
             /\ c.kind = "ObjectInvoke"
             /\ HeapAt(heap, c.object).s = MethodName(op)
             /\ c.args[1] = regs["a"]
             /\ HeapAt(heap, c.args[2]).a = <<regs["b"]>>
             /\ Defined(HeapAt(heap, x).v) =
                  Apply(op, Defined(HeapAt(heap, regs["a"]).v),
                        Defined(HeapAt(heap, regs["b"]).v))]_vars

\* 7-6/(1+1): the quotient 6 / 2 = 3 and then the difference 7 - 3 = 4 were
\* pushed
C24_Witness ==
  /\ input = <<"7", "-", "6", "/", "(", "1", "+", "1", ")">>
  /\ spc = "instr"
  /\ exprs = <<>>
  /\ Len(stack) = 1
  /\ HeapAt(heap, stack[1]).v = 4
  /\ HeapAt(heap, regs["a"]).v = 7
  /\ HeapAt(heap, regs["b"]).v = 3

ParseErrors ==
  {"ExpectedNumber", "ExpectedCloseParen", "TrailingInput", "InvalidNumber"}

\* C25: when the text is not a valid expression, calc_expression returns
\* the parse error in one step that writes no command and leaves the
\* command id, the history and the queue as they were; after the first
\* evaluation of a session has failed this way, the commands issued are
\* those of the setup and no more.
C25_ParseFailureLocal ==
  /\ []((calc_result.res # "none" /\ ~RefParse(input).valid) =>
          /\ calc_result.res = "err"
          /\ calc_result.err \in ParseErrors
          /\ nlines <= 1 =>
               /\ cmd_id = SetupCommands
               /\ Len(payloads) = SetupCommands
               /\ towire = <<>>)
  /\ [][(spc = "calc" /\ ~RefParse(input).valid /\ spc' # spc) =>
          /\ calc_result'.res = "err"
          /\ calc_result'.err \in ParseErrors
          /\ spc' \in {"readline", "failed"}
          /\ UNCHANGED <<cmd_id, payloads, channel, towire, wire, regs>>]_vars

\* the second line of an interactive session is rejected after the first
\* line was evaluated: the commands of the first line are the last ones
C25_Witness ==
  /\ mode = "interactive"
  /\ nlines = 2
  /\ calc_result.res = "err"
  /\ calc_result.err \in ParseErrors
  /\ cmd_id > SetupCommands
  /\ cmd_id = Len(payloads)
  /\ towire = <<>>
  /\ spc = "readline"

\* the history holds the command of command id k, and it is the command c
Aligned(k, c) == k >= 0 /\ k < Len(payloads) /\ payloads[k + 1] = c

\* the history holds a command of command id k, and packet r answers a
\* command of its kind
Answers(r, k) == k >= 0 /\ k < Len(payloads) /\ payloads[k + 1].kind = r.kind

\* C26: the history is appended to before the command is written.  The
\* history has one entry per command id in use, plus the entry of the
\* command about to be written; every command on the connection is the
\* entry at the index of its id; every reply on its way back, and the
\* reply the receive task holds when it calls receive_packet or prints its
\* diagnostic, has the entry of its id in the history.
C26_HistoryAlignment ==
  /\ Len(payloads) \in {cmd_id, cmd_id + 1}
  /\ Len(payloads) = cmd_id + 1 => spc \in {"write", "panicked"}
  /\ spc = "write" => Len(payloads) = cmd_id + 1
  /\ \A i \in 1..Len(towire) : Aligned(towire[i].id, towire[i].cmd)
  /\ \A i \in 1..Len(wire) :
       wire[i].type = "reply" => Answers(wire[i], wire[i].id)
  /\ \A i \in 1..Len(channel) :
       channel[i].type = "reply" => Answers(channel[i], channel[i].id)
  /\ (rbuf.type = "reply" /\ rpc \in {"lockPayloads", "lockContext", "check",
                                      "diagnose", "forward"}) =>
       Answers(rbuf, rbuf.id)

\* the receive task is about to decode the reply to a command of an
\* evaluation, by the entry of its id, the last of the history
C26_Witness ==
  /\ rpc = "lockContext"
  /\ rbuf.type = "reply"
  /\ rbuf.id = Len(payloads) - 1
  /\ rbuf.id > SetupCommands
  /\ payloads[rbuf.id + 1].kind = "ObjectInvoke"
  /\ rbuf.kind = "ObjectInvoke"

\* the receive loop has ended on the end of the stream: channel_tx is
\* dropped
StreamEnded == rpc = "done"

\* C27: once the connection is closed the receive loop ends; from then on
\* a wait of the send side on an empty queue ends with an Err or a panic,
\* no wait lasts forever, and the send side comes to its end (or to the
\* end of the setup).
C27_StreamEndUnblocks ==
  /\ [][(StreamEnded /\ InWait /\ channel = <<>> /\ spc' # spc) =>
          spc' \in {"failed", "panicked", "readline"}]_vars
  /\ (tstate = "closed") ~> (RecvEnded \/ mpc # "running")
  /\ (StreamEnded /\ InWait) ~> ~InWait
  /\ StreamEnded ~> (SendEnded \/ ip > BarrierEnd)

\* the stream ended while the send side waited for a reply: the wait
\* ended with "Channel closed" and handle_send returned the Err
C27_Witness ==
  /\ StreamEnded
  /\ tstate = "closed"
  /\ channel = <<>>
  /\ last.ret = "err"
  /\ ~terminated
  /\ spc = "failed"

ExitLine == <<"e", "x", "i", "t", "\n">>

\* the line read last is "exit"
ExitEntered ==
  /\ Len(input) >= Len(ExitLine)
  /\ SubSeq(input, Len(input) - Len(ExitLine) + 1, Len(input)) = ExitLine
  /\ Len(input) > Len(ExitLine) => input[Len(input) - Len(ExitLine)] = "\n"

\* C28: in the interactive mode, once the line read last is "exit" the
\* loop has ended: handle_send has returned Ok, the line was not given to
\* calc_expression.
C28_InteractiveExit ==
  (mode = "interactive" /\ ExitEntered) => spc = "done"

\* the maximal runs of ASCII digits of s, in order
RunStarts(s) ==
  {i \in 1..Len(s) : IsAsciiDigit(s[i]) /\ (i = 1 \/ ~IsAsciiDigit(s[i - 1]))}

RunEnd(s, i) ==
  CHOOSE j \in i..Len(s) :
    /\ \A k \in i..j : IsAsciiDigit(s[k])
    /\ j = Len(s) \/ ~IsAsciiDigit(s[j + 1])

RunsOf(s) ==
  LET st == Ascending(RunStarts(s))
  IN [k \in 1..Len(st) |-> SubSeq(s, st[k], RunEnd(s, st[k]))]

\* the numeral without its leading zeros ("0" for zero)
Canonical(ds) ==
  LET nz == {i \in 1..Len(ds) : ds[i] # "0"}
  IN IF nz = {} THEN <<"0">> ELSE SubSeq(ds, MinOf(nz), Len(ds))

\* the value of the numeral is greater than 2^63 - 1
ExceedsI64(ds) ==
  LET c == Canonical(ds) IN
    \/ Len(c) > Len(I64MaxNumeral)
    \/ /\ Len(c) = Len(I64MaxNumeral)
       /\ \E i \in 1..Len(c) :
            /\ DigitValue(c[i]) > DigitValue(I64MaxNumeral[i])
            /\ \A j \in 1..(i - 1) : c[j] = I64MaxNumeral[j]

\* the decimal numeral of the i64 of a Number instruction
NumeralOf(e) ==
  IF e.hi = <<>> THEN NatDecimal(e.n)
  ELSE LET low == NatDecimal(e.n)
       IN e.hi \o [i \in 1..(LimbDigits - Len(low)) |-> "0"] \o low

\* C29: a digit run whose value exceeds 2^63 - 1 makes parse_input fail;
\* when parse_input succeeds it has emitted one Number per digit run, in
\* order, whose value is the decimal value of the run, at least 0 and at
\* most 2^63 - 1.
C29_LiteralRange ==
  p_pc = "done" =>
    LET runs == RunsOf(p_input)
        nums == SelectSeq(p_result.exprs, LAMBDA e : e.tag = "Number")
    IN /\ (\E k \in 1..Len(runs) : ExceedsI64(runs[k])) => ~p_result.ok
       /\ p_result.ok =>
            /\ Len(nums) = Len(runs)
            /\ \A k \in 1..Len(runs) :
                 /\ NumeralOf(nums[k]) = Canonical(runs[k])
                 /\ ~ExceedsI64(NumeralOf(nums[k]))
                 /\ nums[k].n >= 0

\* 2^63 as the right operand of a sum is rejected with the error of the
\* number parse
C29_Witness ==
  /\ p_pc = "done"
  /\ p_input = <<"1", "+">> \o Chars("2^63")
  /\ ExceedsI64(RunsOf(p_input)[2])
  /\ p_result = PErr("InvalidNumber")

=============================================================================
